---- MODULE Spec2Model ----
(***************************************************************************)
(* LoudSync: the fade / crossfade filter builders (audioops/core.py), the  *)
(* one- and two-pass normalizer (audioops/loudsync_legacy.py) and the      *)
(* staged pipeline (audioops/pipeline.py).                                 *)
(*                                                                         *)
(* Times are fixed point: a value in seconds is held as a whole number of  *)
(* ticks of MsPerTick milliseconds.  An optional argument (None in the     *)
(* source) is the empty tuple, a given one is a 1-tuple.                   *)
(***************************************************************************)
EXTENDS Integers, Sequences, FiniteSets, TLC

VARIABLES
    fadeCall,          \* one call of fade_file: its arguments, then its outcome
    xfCall,            \* one call of crossfade_sequence
    normCall,          \* one call of normalize_audio
    measCall,          \* one call of measure_loudness
    cfgCall,           \* one save_config / load_config exchange
    batch,             \* one call of main.py's process_files
    runs,              \* two run_pipeline executions side by side
    pc,                \* run_pipeline: where the run stands
    input_files,       \* run_pipeline: the input list
    config,            \* run_pipeline: the PipelineConfig
    toolOnPath,        \* whether find_ffmpeg would find a binary
    fs,                \* the cache directories that exist on disk
    cache_dirs,        \* run_pipeline's local cache_dirs (None before setup)
    normalized_files,  \* run_pipeline's local normalized_files
    faded_files,       \* run_pipeline's local faded_files
    acc,               \* the list a stage is building
    idx,               \* the stage's loop index (1-based)
    calls,             \* every operation the run issued, in order
    stages,            \* the stage functions the run has called, in order
    final_success,     \* run_pipeline's local final_success (None: not set)
    output,            \* what was written to output_path (None: nothing)
    result             \* run_pipeline's return value (None: not returned)

vars == <<fadeCall, xfCall, normCall, measCall, cfgCall, batch, runs, pc, input_files, config, toolOnPath, fs,
          cache_dirs, normalized_files, faded_files, acc, idx, calls, stages,
          final_success, output, result>>

pipeVars == <<pc, input_files, config, toolOnPath, fs, cache_dirs,
              normalized_files, faded_files, acc, idx, calls, stages,
              final_success, output, result>>

None == <<>>

Some(v) == <<v>>

Max(a, b) == IF a >= b THEN a ELSE b

(***************************************************************************)
(* Bounds of the model.                                                    *)
(***************************************************************************)
MaxDur == 3        \* probed durations are 0..MaxDur ticks

MaxOff == 4        \* fade-out offsets / starts are -1..MaxOff ticks

MaxInputs == 3     \* crossfade_sequence is called with 0..MaxInputs inputs

MaxFiles == 3      \* run_pipeline is called with 0..MaxFiles input files

MaxBatch == 3      \* process_files is called with 1..MaxBatch files

MaxRunFiles == 2   \* each of two concurrent runs is given 1..MaxRunFiles files

\* Python's recursion limit, scaled down: a call nested deeper raises
\* RecursionError, which normalize_audio's own except clause catches.
RecursionLimit == 3

(***************************************************************************)
(* Paths.  A path is its directory, stem and suffix (pathlib's parts).     *)
(***************************************************************************)
\* dir and stem are tuples of name parts: in/a.wav is Path(<<"in">>, <<"a">>, ".wav")
Path(d, s, x) == [dir |-> d, stem |-> s, suffix |-> x]

Paths ==
    {Path(<<"in">>, <<"a">>, ".wav"), Path(<<"in">>, <<"b">>, ".mp3"),
     Path(<<"in2">>, <<"a">>, ".wav")}

OutFile == Path(<<"out">>, <<"mix">>, ".mp3")

RECURSIVE SeqsUpTo(_, _)
SeqsUpTo(S, n) ==
    IF n = 0 THEN {<<>>}
    ELSE LET shorter == SeqsUpTo(S, n - 1)
         IN  shorter \cup {Append(s, e) : s \in {t \in shorter : Len(t) = n - 1}, e \in S}

(***************************************************************************)
(* core.py: fade_file                                                      *)
(***************************************************************************)
MsPerTick == 100

\* fade_in_ms/1000, fade_out_ms/1000: milliseconds to seconds (in ticks)
MsToSec(ms) == ms \div MsPerTick

\* A variant of FadeOutStart that tests the absolute start first.
FadeOutStartAbsoluteFirst(dur, fout, fade_out_from_end_sec, fade_out_start_sec) ==
    IF fade_out_start_sec # None
    THEN Max(fade_out_start_sec[1], 0)
    ELSE IF fade_out_from_end_sec # None
         THEN Max(dur - fade_out_from_end_sec[1], 0)
         ELSE Max(dur - fout, 0)

\* core.py 28-33: the fade-out start, by precedence of the anchors
FadeOutStart(dur, fout, fade_out_from_end_sec, fade_out_start_sec) ==
    IF fade_out_from_end_sec # None
    THEN Max(dur - fade_out_from_end_sec[1], 0)
    ELSE IF fade_out_start_sec # None
         THEN Max(fade_out_start_sec[1], 0)
         ELSE Max(dur - fout, 0)

\* core.py 35-39: the ordered filter list
FadeFilters(fin, fout, st_out) ==
    (IF fin > 0 THEN <<[t |-> "in", st |-> 0, d |-> fin]>> ELSE <<>>)
    \o (IF fout > 0 THEN <<[t |-> "out", st |-> st_out, d |-> fout]>> ELSE <<>>)

\* A variant that joins the list whether empty or not.
FadeAfJoinOnly(filters) == filters

\* core.py 42: "anull" when the list is empty
FadeAf(filters) ==
    IF filters # <<>> THEN filters ELSE <<[t |-> "anull", st |-> 0, d |-> 0]>>

\* core.py 45-51: the codec follows the output file's extension
FadeCodec(outfile, codec) ==
    IF outfile.suffix = ".wav" THEN "pcm_s16le"
    ELSE IF outfile.suffix = ".mp3" THEN "libmp3lame"
    ELSE IF outfile.suffix \in {".m4a", ".aac"} THEN "aac"
    ELSE codec

\* The whole of fade_file.  probe is what ffprobe answered (None: it failed,
\* duration_sec raises), runOk whether ffmpeg exited 0 (run raises otherwise).
FadeFile(infile, outfile, fade_in_ms, fade_out_ms, from_end_sec, start_sec, codec, probe, runOk) ==
    IF probe = None
    THEN [raised |-> "CalledProcessError", probed |-> TRUE, dur |-> None,
          st_out |-> None, cmds |-> <<>>, written |-> FALSE]
    ELSE LET dur    == probe[1]
             fin    == Max(MsToSec(fade_in_ms), 0)
             fout   == Max(MsToSec(fade_out_ms), 0)
             st_out == FadeOutStart(dur, fout, from_end_sec, start_sec)
             cmd    == [tool |-> "ffmpeg", infile |-> infile,
                        af |-> FadeAf(FadeFilters(fin, fout, st_out)),
                        codec |-> FadeCodec(outfile, codec), outfile |-> outfile]
         IN  [raised |-> IF runOk THEN "none" ELSE "CalledProcessError",
              probed |-> TRUE, dur |-> Some(dur), st_out |-> Some(st_out),
              cmds |-> <<cmd>>, written |-> runOk]

FadeMs == {-100, 0, 100, 200}

Offsets == {None} \cup {Some(v) : v \in -1..MaxOff}

Probes == {None} \cup {Some(d) : d \in 0..MaxDur}

FadeArgs ==
    [in_ms : FadeMs, out_ms : FadeMs, from_end : Offsets, start : Offsets,
     probe : Probes, runOk : BOOLEAN]

(***************************************************************************)
(* core.py: crossfade_sequence                                             *)
(***************************************************************************)
\* The stream labels of the filter graph: "[i:a]" is the audio of the i-th
\* "-i" argument (0-based), "[a<i>]" the result of the i-th acrossfade node.
InLabel(i) == [kind |-> "in", n |-> i]

ALabel(i) == [kind |-> "a", n |-> i]

\* A variant of the precondition that lets a single input through.
CrossfadePreconditionNonEmpty(inputs) == Len(inputs) >= 1

\* core.py 59: assert len(inputs) >= 2
CrossfadePrecondition(inputs) == Len(inputs) >= 2

\* A variant of the node that merges input i with input i+1 instead of with
\* the previous node's result.
CrossfadeNodeAdjacent(prev, i, overlap_sec, curve1, curve2) ==
    [left |-> InLabel(i - 1), right |-> InLabel(i), d |-> overlap_sec,
     c1 |-> curve1, c2 |-> curve2, out |-> ALabel(i)]

\* core.py 66-68: one acrossfade node
CrossfadeNode(prev, i, overlap_sec, curve1, curve2) ==
    [left |-> prev, right |-> InLabel(i), d |-> overlap_sec,
     c1 |-> curve1, c2 |-> curve2, out |-> ALabel(i)]

\* core.py 63-69: the loop over range(1, len(inputs)); the state of the loop
\* is (i, prev, chains) and its result is (chains, prev)
RECURSIVE CrossfadeChains(_, _, _, _, _, _, _)
CrossfadeChains(n, i, prev, chains, overlap_sec, curve1, curve2) ==
    IF i >= n
    THEN [chains |-> chains, prev |-> prev]
    ELSE LET node == CrossfadeNode(prev, i, overlap_sec, curve1, curve2)
         IN  CrossfadeChains(n, i + 1, node.out, Append(chains, node),
                             overlap_sec, curve1, curve2)

\* The whole of crossfade_sequence; runOk: ffmpeg exited 0.
CrossfadeSequence(inputs, outfile, overlap_sec, curve1, curve2, codec, runOk) ==
    IF ~CrossfadePrecondition(inputs)
    THEN [raised |-> "AssertionError", cmds |-> <<>>, written |-> FALSE]
    ELSE LET built == CrossfadeChains(Len(inputs), 1, InLabel(0), <<>>,
                                      overlap_sec, curve1, curve2)
             cmd   == [tool |-> "ffmpeg", inputs |-> inputs,
                       filter_complex |-> built.chains, map |-> built.prev,
                       codec |-> codec, outfile |-> outfile]
         IN  [raised |-> IF runOk THEN "none" ELSE "CalledProcessError",
              cmds |-> <<cmd>>, written |-> runOk]

Curves == {"tri", "exp"}

Overlaps == {1, 2}

CrossfadeArgs ==
    [inputs : SeqsUpTo(Paths, MaxInputs), overlap : Overlaps, curve1 : Curves,
     curve2 : Curves, runOk : BOOLEAN]

(***************************************************************************)
(* loudsync_legacy.py: measure_loudness, normalize_audio                   *)
(***************************************************************************)
\* The five fields of the loudnorm report that the second pass reads.
MeasuredKeys == {"input_i", "input_tp", "input_lra", "input_thresh", "target_offset"}

\* The tool's diagnostic text (stderr), line by line.  A line is
\*   "prose"       text without braces
\*   "open"        {
\*   "close"       }
\*   "pairs"       the members "key" : value for the keys of the line, no brace
\*   "oneline"     { members } on a single line
\*   "prose_open"  text followed by { on the same line
\*   "nonobject"   a JSON text with braces that is not an object, as [{}]
\* val is the kind of every value on the line: a numeric string ("num"), a
\* string float() rejects ("text"), or null.
Line(kind, keys, val) == [kind |-> kind, keys |-> keys, val |-> val]

BareLine(kind) == Line(kind, {}, "num")

\* loudsync_legacy.py 79, 83: '{' in line, '}' in line
HasOpen(line) == line.kind \in {"open", "oneline", "prose_open", "nonobject"}

HasClose(line) == line.kind \in {"close", "oneline", "nonobject"}

\* loudsync_legacy.py 73-86: the lines from the first one holding '{'
\* through the first one, from there on, holding '}'.
RECURSIVE ScanBlock(_, _, _, _)
ScanBlock(stderr_lines, k, json_started, json_lines) ==
    IF k > Len(stderr_lines)
    THEN json_lines
    ELSE LET line == stderr_lines[k]
             started == json_started \/ HasOpen(line)
         IN  IF ~started
             THEN ScanBlock(stderr_lines, k + 1, FALSE, json_lines)
             ELSE IF HasClose(line)
             THEN Append(json_lines, line)
             ELSE ScanBlock(stderr_lines, k + 1, TRUE, Append(json_lines, line))

\* The object a sequence of member lines denotes: a later member replaces an
\* earlier one of the same key.
ObjectOf(lines) ==
    [key \in UNION {lines[k].keys : k \in 1..Len(lines)} |->
        LET last == CHOOSE k \in 1..Len(lines) :
                        /\ key \in lines[k].keys
                        /\ \A j \in (k + 1)..Len(lines) : key \notin lines[j].keys
        IN  lines[last].val]

\* loudsync_legacy.py 89: json.loads of the captured text.  "invalid": it
\* raises JSONDecodeError; "nondict": a value that is not an object.
JsonLoads(json_lines) ==
    LET n == Len(json_lines)
    IN  IF n = 1 /\ json_lines[1].kind = "nonobject"
        THEN [json |-> "nondict", obj |-> <<>>]
        ELSE IF n = 1 /\ json_lines[1].kind = "oneline"
        THEN [json |-> "dict", obj |-> ObjectOf(json_lines)]
        ELSE IF /\ n >= 2
                /\ json_lines[1].kind = "open"
                /\ json_lines[n].kind = "close"
                /\ \A k \in 2..(n - 1) : json_lines[k].kind = "pairs"
        THEN [json |-> "dict", obj |-> ObjectOf(SubSeq(json_lines, 2, n - 1))]
        ELSE [json |-> "invalid", obj |-> <<>>]

\* The diagnostic texts the normalizer is run against.
Stderrs ==
    {<<BareLine("prose")>>,
     <<BareLine("nonobject")>>,
     <<BareLine("prose"), BareLine("open"), BareLine("close")>>,
     <<BareLine("prose_open"), Line("pairs", MeasuredKeys, "num"), BareLine("close")>>,
     <<BareLine("open"), Line("pairs", MeasuredKeys, "num"), BareLine("close")>>,
     <<Line("oneline", MeasuredKeys \ {"target_offset"}, "num")>>,
     <<Line("oneline", MeasuredKeys \ {"input_i"}, "num")>>,
     <<Line("oneline", MeasuredKeys, "text")>>,
     <<Line("oneline", MeasuredKeys, "null")>>}

\* What the measurement subprocess can do: not start (OSError, e.g. a missing
\* binary), raise a SubprocessError, or run and leave its diagnostic text.
MeasureProcs ==
    {[proc |-> "OSError", stderr |-> <<>>], [proc |-> "SubprocessError", stderr |-> <<>>]}
    \cup {[proc |-> "ran", stderr |-> e] : e \in Stderrs}

\* loudsync_legacy.py 95-97: float(json_data.get(key, 0))
FloatOf(obj, key) ==
    IF key \notin DOMAIN obj THEN "0.0"
    ELSE IF obj[key] = "num" THEN "float"
    ELSE IF obj[key] = "text" THEN "ValueError"
    ELSE "TypeError"

\* A measurement that carries no numbers.
Unmeasured(raised, status) ==
    [raised |-> raised, status |-> status, integrated_lufs |-> None,
     loudness_range |-> None, true_peak_dbtp |-> None, raw_json |-> None]

\* loudsync_legacy.py 59-117.  raised: the exception that leaves the function
\* ("none": it returned); raw_json: None, or the parsed object.
MeasureLoudness(p) ==
    IF p.proc = "SubprocessError"
    THEN Unmeasured("none", "FFMPEG_ERROR")
    ELSE IF p.proc = "OSError"
    THEN Unmeasured("OSError", "")
    ELSE LET d == JsonLoads(ScanBlock(p.stderr, 1, FALSE, <<>>))
             i   == FloatOf(d.obj, "input_i")
             lra == FloatOf(d.obj, "input_lra")
             tp  == FloatOf(d.obj, "input_tp")
             bad == SelectSeq(<<i, lra, tp>>, LAMBDA f : f \in {"ValueError", "TypeError"})
         IN  IF d.json = "invalid"
             THEN Unmeasured("none", "JSON_ERROR")
             ELSE IF d.json = "nondict"
             THEN Unmeasured("AttributeError", "")
             ELSE IF bad # <<>> /\ bad[1] = "ValueError"
             THEN Unmeasured("none", "JSON_ERROR")
             ELSE IF bad # <<>>
             THEN Unmeasured("TypeError", "")
             ELSE [raised |-> "none", status |-> "OK", integrated_lufs |-> Some(i),
                   loudness_range |-> Some(lra), true_peak_dbtp |-> Some(tp),
                   raw_json |-> Some(d.obj)]

\* A variant of the test that takes an empty parameter set as usable.
MeasurementUnusableStatusOnly(m) == m.status # "OK"

\* loudsync_legacy.py 132: status != 'OK' or not raw_json (None or {})
MeasurementUnusable(m) ==
    m.status # "OK" \/ m.raw_json = None \/ DOMAIN m.raw_json[1] = {}

\* A variant that reads the measured values with a default.
MissingMeasuredKeyNever(json_data) == FALSE

\* loudsync_legacy.py 139-151: json_data["input_i"], ["input_tp"],
\* ["input_lra"], ["input_thresh"], ["target_offset"] raise KeyError when the
\* key is absent
MissingMeasuredKey(json_data) == ~(MeasuredKeys \subseteq DOMAIN json_data)

\* A variant of the fallback that asks for two passes again.
FallbackTwoPassAgain == TRUE

\* loudsync_legacy.py 135-136: the value of two_pass in the recursive call
FallbackTwoPass == FALSE

\* loudsync_legacy.py 171-179: the transform subprocess: exit code 0, a
\* nonzero exit code, or an exception starting it
TransformProcs == {"rc0", "rc1", "OSError"}

TransformResult(mode, t, issued, depth) ==
    [raised |-> IF t = "OSError" THEN "OSError" ELSE "none",
     ret |-> (t = "rc0"), depth |-> depth,
     calls |-> Append(issued, [op |-> "transform", mode |-> mode, out |-> t])]

\* An exception leaving the body of normalize_audio's try.
Raised(exc, depth, issued) ==
    [raised |-> exc, ret |-> FALSE, depth |-> depth, calls |-> issued]

\* A variant of the handler that catches SubprocessError only.
ExceptSubprocessError(r) ==
    IF r.raised = "SubprocessError" THEN [r EXCEPT !.raised = "none", !.ret = FALSE] ELSE r

\* loudsync_legacy.py 181-183: except Exception: return False
ExceptException(r) ==
    IF r.raised # "none" THEN [r EXCEPT !.raised = "none", !.ret = FALSE] ELSE r

\* The k-th invocation of a kind gets the k-th entry of its tape, the last
\* entry again once the tape is used up.
TapeAt(tape, k) == tape[IF k <= Len(tape) THEN k ELSE Len(tape)]

\* The whole of normalize_audio (120-183): the value returned, the exception
\* that leaves it ("none": it returned) and the subprocess invocations
\* issued, in order.  ffmpeg_path: None or Some; found: whether find_ffmpeg
\* succeeds; mtape/ttape: what the successive measurement / transform
\* subprocesses do; depth: nesting of the call.  NormalizeBody is the body
\* of the try (125-179).
RECURSIVE NormalizeAudioRec(_, _, _, _, _, _, _)
NormalizeBody(two_pass, ffmpeg_path, found, mtape, ttape, depth, issued) ==
    LET nMeasure   == Cardinality({k \in 1..Len(issued) : issued[k].op = "measure"})
        nTransform == Cardinality({k \in 1..Len(issued) : issued[k].op = "transform"})
    IN
    IF depth > RecursionLimit
    THEN Raised("RecursionError", depth, issued)
    ELSE IF ffmpeg_path = None /\ ~found
    THEN Raised("LoudSyncError", depth, issued)
    ELSE IF two_pass
    THEN LET p == TapeAt(mtape, nMeasure + 1)
             m == MeasureLoudness(p)
             measured == Append(issued, [op |-> "measure", mode |-> "json", out |-> p.proc])
         IN  IF m.raised # "none"
             THEN Raised(m.raised, depth, measured)
             ELSE IF MeasurementUnusable(m)
             THEN NormalizeAudioRec(FallbackTwoPass, ffmpeg_path, found, mtape,
                                    ttape, depth + 1, measured)
             ELSE IF MissingMeasuredKey(m.raw_json[1])
             THEN Raised("KeyError", depth, measured)
             ELSE TransformResult("linear", TapeAt(ttape, nTransform + 1), measured, depth)
    ELSE TransformResult("single", TapeAt(ttape, nTransform + 1), issued, depth)

NormalizeAudioRec(two_pass, ffmpeg_path, found, mtape, ttape, depth, issued) ==
    ExceptException(NormalizeBody(two_pass, ffmpeg_path, found, mtape, ttape, depth, issued))

NormalizeAudio(two_pass, ffmpeg_path, found, mtape, ttape) ==
    NormalizeAudioRec(two_pass, ffmpeg_path, found, mtape, ttape, 1, <<>>)

NormalizeArgs ==
    [two_pass : BOOLEAN, ffmpeg_path : {None, Some("ffmpeg")}, found : BOOLEAN,
     mproc : MeasureProcs, t1 : TransformProcs, t2 : TransformProcs]

\* The texts one call of measure_loudness is checked against: up to MaxLines
\* lines over these.
MaxLines == 3

ScanLines ==
    {BareLine("prose"), BareLine("open"), BareLine("close"), BareLine("prose_open"),
     BareLine("nonobject"), Line("oneline", {"input_i", "input_lra", "input_tp"}, "num")}
    \cup {Line("pairs", {key}, val) : key \in {"input_i", "input_tp"},
                                      val \in {"num", "text", "null"}}

MeasureArgs ==
    {[proc |-> "OSError", stderr |-> <<>>], [proc |-> "SubprocessError", stderr |-> <<>>]}
    \cup {[proc |-> "ran", stderr |-> e] : e \in SeqsUpTo(ScanLines, MaxLines)}

(***************************************************************************)
(* One call of fade_file, of crossfade_sequence, of normalize_audio: the   *)
(* arguments and the answers of the external tools are drawn in the        *)
(* initial state, the action is the call.                                  *)
(***************************************************************************)
NoCall == [phase |-> "idle", args |-> None, res |-> None]

\* process_files has not been called.
NoBatch ==
    [pc |-> "idle", files |-> <<>>, args |-> None, i |-> 0, exists |-> {},
     transforms |-> <<>>, measure_results |-> <<>>, success_count |-> 0, failure_count |-> 0]

\* No run_pipeline executions side by side.
NoRuns == [dirs |-> {}, fs |-> {}, touched |-> {}, removed |-> {}, run |-> <<>>]

PipeIdle ==
    /\ batch = NoBatch
    /\ runs = NoRuns
    /\ pc = "idle"
    /\ input_files = <<>>
    /\ config = None
    /\ toolOnPath = FALSE
    /\ fs = {}
    /\ cache_dirs = None
    /\ normalized_files = <<>>
    /\ faded_files = <<>>
    /\ acc = <<>>
    /\ idx = 0
    /\ calls = <<>>
    /\ stages = <<>>
    /\ final_success = None
    /\ output = None
    /\ result = None

InitFade ==
    /\ fadeCall \in {[phase |-> "args", args |-> Some(a), res |-> None] : a \in FadeArgs}
    /\ xfCall = NoCall
    /\ normCall = NoCall
    /\ measCall = NoCall
    /\ cfgCall = NoCall
    /\ PipeIdle

FadeFileCall ==
    /\ fadeCall.phase = "args"
    /\ LET a == fadeCall.args[1]
       IN  fadeCall' = [fadeCall EXCEPT
                          !.phase = "done",
                          !.res = Some(FadeFile(Path(<<"in">>, <<"a">>, ".wav"),
                                                Path(<<"out">>, <<"a">>, ".wav"),
                                                a.in_ms, a.out_ms, a.from_end,
                                                a.start, "aac", a.probe, a.runOk))]
    /\ UNCHANGED <<xfCall, normCall, measCall, cfgCall, pipeVars, batch, runs>>

SpecFade == InitFade /\ [][FadeFileCall]_vars

InitCrossfade ==
    /\ xfCall \in {[phase |-> "args", args |-> Some(a), res |-> None] : a \in CrossfadeArgs}
    /\ fadeCall = NoCall
    /\ normCall = NoCall
    /\ measCall = NoCall
    /\ cfgCall = NoCall
    /\ PipeIdle

CrossfadeSequenceCall ==
    /\ xfCall.phase = "args"
    /\ LET a == xfCall.args[1]
       IN  xfCall' = [xfCall EXCEPT
                        !.phase = "done",
                        !.res = Some(CrossfadeSequence(a.inputs, OutFile, a.overlap,
                                                       a.curve1, a.curve2,
                                                       "libmp3lame", a.runOk))]
    /\ UNCHANGED <<fadeCall, normCall, measCall, cfgCall, pipeVars, batch, runs>>

SpecCrossfade == InitCrossfade /\ [][CrossfadeSequenceCall]_vars

InitNormalize ==
    /\ normCall \in {[phase |-> "args", args |-> Some(a), res |-> None] : a \in NormalizeArgs}
    /\ fadeCall = NoCall
    /\ xfCall = NoCall
    /\ measCall = NoCall
    /\ cfgCall = NoCall
    /\ PipeIdle

NormalizeAudioCall ==
    /\ normCall.phase = "args"
    /\ LET a == normCall.args[1]
       IN  normCall' = [normCall EXCEPT
                          !.phase = "done",
                          !.res = Some(NormalizeAudio(a.two_pass, a.ffmpeg_path, a.found,
                                                      <<a.mproc>>, <<a.t1, a.t2>>))]
    /\ UNCHANGED <<fadeCall, xfCall, measCall, cfgCall, pipeVars, batch, runs>>

SpecNormalize == InitNormalize /\ [][NormalizeAudioCall]_vars

InitMeasure ==
    /\ measCall \in {[phase |-> "args", args |-> Some(a), res |-> None] : a \in MeasureArgs}
    /\ fadeCall = NoCall
    /\ xfCall = NoCall
    /\ normCall = NoCall
    /\ cfgCall = NoCall
    /\ PipeIdle

MeasureLoudnessCall ==
    /\ measCall.phase = "args"
    /\ measCall' = [measCall EXCEPT !.phase = "done",
                                    !.res = Some(MeasureLoudness(measCall.args[1]))]
    /\ UNCHANGED <<fadeCall, xfCall, normCall, cfgCall, pipeVars, batch, runs>>

SpecMeasure == InitMeasure /\ [][MeasureLoudnessCall]_vars

(***************************************************************************)
(* pipeline.py: PipelineConfig, the stages and run_pipeline                *)
(***************************************************************************)
\* pipeline.py 26-53: the defaults.  lufs and tp are in tenths (-16.0, -1.5),
\* from_end_sec and overlap_sec in ticks (2.0 s).
DefaultConfig ==
    [normalize |-> [enabled |-> TRUE, preset |-> "-16", lufs |-> -160, tp |-> -15,
                    two_pass |-> TRUE],
     fade      |-> [enabled |-> FALSE, in_ms |-> 300, out_ms |-> 1500,
                    from_end_sec |-> Some(20)],
     crossfade |-> [enabled |-> FALSE, overlap_sec |-> 20, curve |-> "tri"],
     output    |-> [codec |-> "aac", sample_rate |-> 48000, format |-> "wav"],
     paths     |-> [ffmpeg |-> None, cache_dir |-> <<"_cache">>]]

\* The configurations a run is started with: the defaults, with each stage
\* switched on or off, one or two passes, the tool path set or left to
\* find_ffmpeg.
Configs ==
    {[DefaultConfig EXCEPT !.normalize.enabled = n, !.normalize.two_pass = t,
                           !.fade.enabled = f, !.crossfade.enabled = x,
                           !.paths.ffmpeg = p] :
        n \in BOOLEAN, t \in BOOLEAN, f \in BOOLEAN, x \in BOOLEAN,
        p \in {None, Some("ffmpeg")}}

(***************************************************************************)
(* pipeline.py: save_config and load_config                                *)
(***************************************************************************)
\* A configuration that differs from the defaults in every field.
FarConfig ==
    [normalize |-> [enabled |-> FALSE, preset |-> "-23", lufs |-> -230, tp |-> -10,
                    two_pass |-> FALSE],
     fade      |-> [enabled |-> TRUE, in_ms |-> 500, out_ms |-> 2000,
                    from_end_sec |-> Some(30)],
     crossfade |-> [enabled |-> TRUE, overlap_sec |-> 30, curve |-> "exp"],
     output    |-> [codec |-> "libmp3lame", sample_rate |-> 44100, format |-> "mp3"],
     paths     |-> [ffmpeg |-> Some("ffmpeg"), cache_dir |-> <<"tmp", "cache">>]]

\* The configurations that are saved.
SavedConfigs == Configs \cup {FarConfig}

\* pipeline.py 290-296: the groups of the document, in the order written
\* and read back
ConfigGroups == <<"normalize", "fade", "crossfade", "output", "paths">>

\* pipeline.py 27-52: the Python type of each field.  "optfloat" and "optstr"
\* are fields that hold a value or None (a 1-tuple or the empty tuple here).
FieldKind(group, key) ==
    IF key \in {"enabled", "two_pass"} THEN "bool"
    ELSE IF key \in {"lufs", "tp", "overlap_sec"} THEN "float"
    ELSE IF key = "from_end_sec" THEN "optfloat"
    ELSE IF key \in {"in_ms", "out_ms", "sample_rate"} THEN "int"
    ELSE IF key = "ffmpeg" THEN "optstr"
    ELSE "str"

\* json.dump of one value: true / false, null, a number (with a fraction
\* part for a float, without for an int) or a string.
JsonNumber(v, frac) == [t |-> "number", v |-> [digits |-> v, frac |-> frac]]

DumpValue(kind, v) ==
    IF kind = "bool" THEN [t |-> IF v THEN "true" ELSE "false", v |-> <<>>]
    ELSE IF kind = "int" THEN JsonNumber(v, FALSE)
    ELSE IF kind = "float" THEN JsonNumber(v, TRUE)
    ELSE IF kind = "str" THEN [t |-> "string", v |-> v]
    ELSE IF v = None THEN [t |-> "null", v |-> <<>>]
    ELSE IF kind = "optfloat" THEN JsonNumber(v[1], TRUE)
    ELSE [t |-> "string", v |-> v[1]]

\* json.load of one value, held the way the field's kind is held
LoadValue(kind, j) ==
    LET value == IF j.t = "true" THEN TRUE
                 ELSE IF j.t = "false" THEN FALSE
                 ELSE IF j.t = "null" THEN None
                 ELSE IF j.t = "number" THEN j.v.digits
                 ELSE j.v
    IN  IF kind \in {"optfloat", "optstr"} /\ j.t # "null" THEN Some(value) ELSE value

\* A JSON object with the given members; JsonScalar stands for a value that
\* is no object (a number, null).
JsonObject(members) == [t |-> "object", v |-> members]

JsonScalar(kind) == [t |-> kind, v |-> <<>>]

\* pipeline.py 290-299: the document save_config writes
ConfigDict(c) ==
    JsonObject([group \in {ConfigGroups[k] : k \in 1..Len(ConfigGroups)} |->
        JsonObject([key \in DOMAIN c[group] |->
                        DumpValue(FieldKind(group, key), c[group][key])])])

\* dict.update
DictUpdate(d, u) ==
    [key \in DOMAIN d \cup DOMAIN u |-> IF key \in DOMAIN u THEN u[key] ELSE d[key]]

\* pipeline.py 315-319: config_dict.get(group, {}), as dict.update takes it:
\* the decoded members of an object, nothing for an absent group; a number or
\* null makes update raise TypeError.
GroupOf(config_dict, group) ==
    IF group \notin DOMAIN config_dict
    THEN [raised |-> "none", members |-> <<>>]
    ELSE IF config_dict[group].t # "object"
    THEN [raised |-> "TypeError", members |-> <<>>]
    ELSE [raised |-> "none",
          members |-> [key \in DOMAIN config_dict[group].v |->
                          LoadValue(FieldKind(group, key), config_dict[group].v[key])]]

\* A variant of load_config that does not read the paths group.
LoadedGroupsWithoutPaths == SubSeq(ConfigGroups, 1, 4)

\* pipeline.py 315-319: the groups load_config updates, in order
LoadedGroups == ConfigGroups

\* pipeline.py 315-319: the updates, one group after the other, on the
\* config object itself; the first one that raises ends them
RECURSIVE UpdateGroups(_, _, _)
UpdateGroups(cfg, config_dict, k) ==
    IF k > Len(LoadedGroups)
    THEN cfg
    ELSE LET group == LoadedGroups[k]
             u     == GroupOf(config_dict, group)
         IN  IF u.raised # "none"
             THEN cfg
             ELSE UpdateGroups([cfg EXCEPT ![group] = DictUpdate(cfg[group], u.members)],
                               config_dict, k + 1)

\* pipeline.py 304-326: load_config.  document: None when config_path does
\* not exist, else the text found there: "invalid" (json.load raises), a
\* value that is no object (.get raises AttributeError) or an object.
\* Whatever is raised is caught at 323 and config is returned as it stands.
LoadConfig(document) ==
    IF document = None THEN DefaultConfig
    ELSE IF document[1].t # "object" THEN DefaultConfig
    ELSE UpdateGroups(DefaultConfig, document[1].v, 1)

\* The members of a document from which the groups of G and, in group g, the
\* keys of K have been removed.
Omit(config_dict, G, g, K) ==
    [group \in DOMAIN config_dict \ G |->
        JsonObject([key \in DOMAIN config_dict[group].v \ (IF group = g THEN K ELSE {}) |->
                        config_dict[group].v[key]])]

\* The fields removed by Omit.
Omitted(config_dict, G, g, K) ==
    {f \in UNION {{<<group, key>> : key \in DOMAIN config_dict[group].v} :
                      group \in DOMAIN config_dict} :
        f[1] \in G \/ (f[1] = g /\ f[2] \in K)}

\* The texts a document can be replaced by that load_config rejects: one
\* that is not JSON, a JSON value that is no object, the document with the
\* value of one group replaced by a number or null.
Rejected(config_dict) ==
    {JsonScalar("invalid"), JsonScalar("number")}
    \cup {JsonObject([config_dict EXCEPT ![group] = JsonScalar(kind)]) :
              group \in DOMAIN config_dict, kind \in {"number", "null"}}

\* One exchange: save_config(c) writes the document (or fails to open the
\* file, and there is none), the document may be edited by hand, losing
\* groups and keys, and load_config reads what is there.
InitConfig ==
    /\ cfgCall \in {[phase |-> "args", args |-> Some(c), res |-> None] : c \in SavedConfigs}
    /\ fadeCall = NoCall
    /\ xfCall = NoCall
    /\ normCall = NoCall
    /\ measCall = NoCall
    /\ PipeIdle

SaveConfigCall ==
    /\ cfgCall.phase = "args"
    /\ \E written \in BOOLEAN :
         cfgCall' = [cfgCall EXCEPT
                       !.phase = "saved",
                       !.res = Some([document |-> IF written
                                                  THEN Some(ConfigDict(cfgCall.args[1]))
                                                  ELSE None,
                                     omitted |-> {}, loaded |-> None])]
    /\ UNCHANGED <<fadeCall, xfCall, normCall, measCall, pipeVars, batch, runs>>

EditDocument ==
    /\ cfgCall.phase = "saved"
    /\ cfgCall.res[1].document # None
    /\ LET config_dict == cfgCall.res[1].document[1].v
       IN  \E G \in SUBSET DOMAIN config_dict, g \in DOMAIN config_dict :
             \E K \in SUBSET DOMAIN config_dict[g].v :
               /\ Omitted(config_dict, G, g, K) # {}
               /\ cfgCall' = [cfgCall EXCEPT
                                !.phase = "edited",
                                !.res = Some([document |->
                                                  Some(JsonObject(Omit(config_dict, G, g, K))),
                                              omitted |-> Omitted(config_dict, G, g, K),
                                              loaded |-> None])]
    /\ UNCHANGED <<fadeCall, xfCall, normCall, measCall, pipeVars, batch, runs>>

LoadConfigCall ==
    /\ cfgCall.phase \in {"saved", "edited", "rejected"}
    /\ cfgCall' = [cfgCall EXCEPT
                     !.phase = "loaded",
                     !.res[1].loaded = Some(LoadConfig(cfgCall.res[1].document))]
    /\ UNCHANGED <<fadeCall, xfCall, normCall, measCall, pipeVars, batch, runs>>

NextConfig == SaveConfigCall \/ EditDocument \/ LoadConfigCall

SpecConfig == InitConfig /\ [][NextConfig]_vars

\* The same exchange, where the document may also be replaced by a text
\* load_config rejects.
RejectDocument ==
    /\ cfgCall.phase = "saved"
    /\ cfgCall.res[1].document # None
    /\ \E text \in Rejected(cfgCall.res[1].document[1].v) :
         cfgCall' = [cfgCall EXCEPT !.phase = "rejected",
                                    !.res[1].document = Some(text)]
    /\ UNCHANGED <<fadeCall, xfCall, normCall, measCall, pipeVars, batch, runs>>

NextLoad == NextConfig \/ RejectDocument

SpecLoad == InitConfig /\ [][NextLoad]_vars

(***************************************************************************)
(* pipeline.py: create_preset_config                                       *)
(***************************************************************************)
PresetNames == {"podcast", "bgm", "broadcast", "other"}

\* A variant that starts from a configuration other than the defaults.
PresetBaseFar == FarConfig

\* pipeline.py 228: config = PipelineConfig()
PresetBase == DefaultConfig

\* pipeline.py 226-285: create_preset_config
CreatePresetConfig(preset_name) ==
    IF preset_name = "podcast"
    THEN [PresetBase EXCEPT
            !.normalize = DictUpdate(@, [preset |-> "-16", lufs |-> -160, tp |-> -15]),
            !.fade = DictUpdate(@, [enabled |-> TRUE, in_ms |-> 500, out_ms |-> 2000,
                                    from_end_sec |-> Some(30)]),
            !.output = DictUpdate(@, [codec |-> "libmp3lame", format |-> "mp3"])]
    ELSE IF preset_name = "bgm"
    THEN [PresetBase EXCEPT
            !.normalize = DictUpdate(@, [preset |-> "-18", lufs |-> -180, tp |-> -15]),
            !.fade = DictUpdate(@, [enabled |-> TRUE, in_ms |-> 1000, out_ms |-> 3000,
                                    from_end_sec |-> Some(40)]),
            !.crossfade = DictUpdate(@, [enabled |-> TRUE, overlap_sec |-> 30]),
            !.output = DictUpdate(@, [codec |-> "aac", format |-> "wav"])]
    ELSE IF preset_name = "broadcast"
    THEN [PresetBase EXCEPT
            !.normalize = DictUpdate(@, [preset |-> "-23", lufs |-> -230, tp |-> -10]),
            !.fade = DictUpdate(@, [enabled |-> TRUE, in_ms |-> 300, out_ms |-> 1000,
                                    from_end_sec |-> Some(20)]),
            !.output = DictUpdate(@, [codec |-> "pcm_s16le", format |-> "wav"])]
    ELSE PresetBase

\* One preset is created, then saved and read back.
InitPreset ==
    /\ cfgCall \in {[phase |-> "preset", args |-> <<name>>, res |-> None] : name \in PresetNames}
    /\ fadeCall = NoCall
    /\ xfCall = NoCall
    /\ normCall = NoCall
    /\ measCall = NoCall
    /\ PipeIdle

CreatePresetConfigCall ==
    /\ cfgCall.phase = "preset"
    /\ cfgCall' = [cfgCall EXCEPT
                     !.phase = "args",
                     !.args = <<CreatePresetConfig(cfgCall.args[1]), cfgCall.args[1]>>]
    /\ UNCHANGED <<fadeCall, xfCall, normCall, measCall, pipeVars, batch, runs>>

NextPreset == CreatePresetConfigCall \/ SaveConfigCall \/ EditDocument \/ LoadConfigCall

SpecPreset == InitPreset /\ [][NextPreset]_vars

\* A variant of setup_cache_dirs that puts the cache at one fixed place.
CacheDirsFixedRoot(cache_dir) ==
    [normalized |-> <<"_cache", "normalized">>, faded |-> <<"_cache", "faded">>]

\* pipeline.py 58-62: the two per-stage directories under the cache root
CacheDirs(cache_dir) ==
    [normalized |-> cache_dir \o <<"normalized">>, faded |-> cache_dir \o <<"faded">>]

\* dirs.values(), in insertion order
CacheDirList(d) == <<d.normalized, d.faded>>

\* A variant that writes the normalized file next to its input.
NormOutputPathBesideInput(file_path, d) ==
    Path(file_path.dir, file_path.stem \o <<"__norm">>, file_path.suffix)

\* pipeline.py 98-99: <stem>__norm<suffix> inside the normalized directory
NormOutputPath(file_path, d) ==
    Path(d.normalized, file_path.stem \o <<"__norm">>, file_path.suffix)

\* pipeline.py 136-137: <stem>__fade<suffix> inside the faded directory
FadeOutputPath(file_path, d) ==
    Path(d.faded, file_path.stem \o <<"__fade">>, file_path.suffix)

\* A variant without the handler: the exception leaves run_pipeline, which
\* returns no value.
RaisePropagates ==
    /\ pc' = "done"
    /\ result' = None

\* pipeline.py 221-223: an exception anywhere in the run is caught, the run
\* returns False (and what follows in the try block is skipped)
Raise ==
    /\ pc' = "done"
    /\ result' = Some(FALSE)

Init ==
    /\ fadeCall = NoCall
    /\ xfCall = NoCall
    /\ normCall = NoCall
    /\ measCall = NoCall
    /\ cfgCall = NoCall
    /\ batch = NoBatch
    /\ runs = NoRuns
    /\ pc = "start"
    /\ input_files \in SeqsUpTo(Paths, MaxFiles)
    /\ config \in {Some(c) : c \in Configs}
    /\ toolOnPath \in BOOLEAN
    /\ fs \in {{}, {CacheDirs(<<"_cache">>).normalized, CacheDirs(<<"_cache">>).faded}}
    /\ cache_dirs = None
    /\ normalized_files = <<>>
    /\ faded_files = <<>>
    /\ acc = <<>>
    /\ idx = 0
    /\ calls = <<>>
    /\ stages = <<>>
    /\ final_success = None
    /\ output = None
    /\ result = None

\* pipeline.py 194, 56-67: setup_cache_dirs.  mkdir creates the directories
\* in order; made < 2 is an OSError from the (made+1)-th mkdir.
SetupCacheDirs ==
    /\ pc = "start"
    /\ \E made \in 0..2 :
         LET d == CacheDirs(config[1].paths.cache_dir)
         IN  /\ fs' = fs \cup {CacheDirList(d)[k] : k \in 1..made}
             /\ IF made = 2
                THEN /\ cache_dirs' = Some(d)
                     /\ pc' = "normalize"
                     /\ UNCHANGED result
                ELSE /\ Raise
                     /\ UNCHANGED cache_dirs
    /\ UNCHANGED <<fadeCall, xfCall, normCall, measCall, cfgCall, batch, runs,
                   input_files, config, toolOnPath,
                   normalized_files, faded_files, acc, idx, calls, stages,
                   final_success, output>>

\* pipeline.py 197, 84-92: run_normalize_step up to its loop.  Disabled: the
\* input list is returned.  Enabled: the tool path is config.paths['ffmpeg']
\* or find_ffmpeg(), which raises LoudSyncError when no binary is found.
NormalizeEnter ==
    /\ pc = "normalize"
    /\ stages' = Append(stages, "normalize")
    /\ IF ~config[1].normalize.enabled
       THEN /\ normalized_files' = input_files
            /\ pc' = "normalized"
            /\ UNCHANGED <<acc, idx, result>>
       ELSE IF config[1].paths.ffmpeg = None /\ ~toolOnPath
            THEN /\ Raise
                 /\ UNCHANGED <<normalized_files, acc, idx>>
            ELSE /\ acc' = <<>>
                 /\ idx' = 1
                 /\ pc' = "normalize_loop"
                 /\ UNCHANGED <<normalized_files, result>>
    /\ UNCHANGED <<fadeCall, xfCall, normCall, measCall, cfgCall, batch, runs,
                   input_files, config, toolOnPath, fs,
                   cache_dirs, faded_files, calls, final_success, output>>

\* A variant of the loops that walks the list from its end.
LoopItemReversed(files, i) == files[Len(files) + 1 - i]

\* pipeline.py 94, 132: for i, file_path in enumerate(files, 1)
LoopItem(files, i) == files[i]

\* pipeline.py 102-109: what normalize_audio can return for one file, over
\* everything the measurement and transform subprocesses can do
NormalizeReturns(two_pass, ffmpeg_path, found) ==
    {NormalizeAudio(two_pass, ffmpeg_path, found, <<mproc>>, <<t1, t2>>).ret :
        mproc \in MeasureProcs, t1 \in TransformProcs, t2 \in TransformProcs}

\* A variant of the loop body that keeps the output path of a failed file.
KeepNormalizedAlways(files, output_path, success) == Append(files, output_path)

\* pipeline.py 111-115: the output path is appended on success only
KeepNormalized(files, output_path, success) ==
    IF success THEN Append(files, output_path) ELSE files

\* pipeline.py 94-115: one iteration of the loop of run_normalize_step
NormalizeFile ==
    /\ pc = "normalize_loop"
    /\ idx <= Len(input_files)
    /\ \E success \in NormalizeReturns(config[1].normalize.two_pass, Some("ffmpeg"),
                                       toolOnPath) :
         LET file_path   == LoopItem(input_files, idx)
             output_path == NormOutputPath(file_path, cache_dirs[1])
         IN  /\ calls' = Append(calls, [op |-> "normalize", src |-> <<file_path>>,
                                        dst |-> output_path, ok |-> success])
             /\ acc' = KeepNormalized(acc, output_path, success)
    /\ idx' = idx + 1
    /\ UNCHANGED <<fadeCall, xfCall, normCall, measCall, cfgCall, batch, runs,
                   pc, input_files, config, toolOnPath,
                   fs, cache_dirs, normalized_files, faded_files, stages,
                   final_success, output, result>>

\* pipeline.py 117: return normalized_files
NormalizeReturn ==
    /\ pc = "normalize_loop"
    /\ idx > Len(input_files)
    /\ normalized_files' = acc
    /\ pc' = "normalized"
    /\ UNCHANGED <<fadeCall, xfCall, normCall, measCall, cfgCall, batch, runs,
                   input_files, config, toolOnPath, fs,
                   cache_dirs, faded_files, acc, idx, calls, stages, final_success,
                   output, result>>

\* A variant of the test that never aborts.
NoSurvivorsIgnored(files) == FALSE

\* pipeline.py 198: if not normalized_files
NoSurvivors(files) == files = <<>>

\* pipeline.py 198-200: no file left after normalization: return False
CheckNormalized ==
    /\ pc = "normalized"
    /\ IF NoSurvivors(normalized_files)
       THEN /\ pc' = "done"
            /\ result' = Some(FALSE)
       ELSE /\ pc' = "fade"
            /\ UNCHANGED result
    /\ UNCHANGED <<fadeCall, xfCall, normCall, measCall, cfgCall, batch, runs,
                   input_files, config, toolOnPath, fs,
                   cache_dirs, normalized_files, faded_files, acc, idx, calls,
                   stages, final_success, output>>

\* A variant of the test that skips the stage always.
FadeStepSkippedAlways(files, c) == TRUE

\* pipeline.py 123: if not config.fade['enabled'] or not files
FadeStepSkipped(files, c) == ~c.fade.enabled \/ files = <<>>

\* pipeline.py 203, 123-130: run_fade_step up to its loop
FadeEnter ==
    /\ pc = "fade"
    /\ stages' = Append(stages, "fade")
    /\ IF FadeStepSkipped(normalized_files, config[1])
       THEN /\ faded_files' = normalized_files
            /\ pc' = "faded"
            /\ UNCHANGED <<acc, idx>>
       ELSE /\ acc' = <<>>
            /\ idx' = 1
            /\ pc' = "fade_loop"
            /\ UNCHANGED faded_files
    /\ UNCHANGED <<fadeCall, xfCall, normCall, measCall, cfgCall, batch, runs,
                   input_files, config, toolOnPath, fs,
                   cache_dirs, normalized_files, calls, final_success, output, result>>

\* pipeline.py 139-150: whether fade_file returns (TRUE) or raises (FALSE),
\* over everything ffprobe and ffmpeg can do
FadeReturns(file_path, output_path, c) ==
    {FadeFile(file_path, output_path, c.fade.in_ms, c.fade.out_ms,
              c.fade.from_end_sec, None, c.output.codec, probe, runOk).raised = "none" :
        probe \in Probes, runOk \in BOOLEAN}

\* A variant of the loop body that puts the new file first.
KeepFadedFirst(files, output_path, faded) ==
    IF faded THEN <<output_path>> \o files ELSE files

\* pipeline.py 147-150: the output path is appended unless fade_file raised
KeepFaded(files, output_path, faded) ==
    IF faded THEN Append(files, output_path) ELSE files

\* pipeline.py 132-150: one iteration of the loop of run_fade_step; whatever
\* fade_file raises is caught and the file is left out
FadeOneFile ==
    /\ pc = "fade_loop"
    /\ idx <= Len(normalized_files)
    /\ LET file_path   == LoopItem(normalized_files, idx)
           output_path == FadeOutputPath(file_path, cache_dirs[1])
       IN  \E faded \in FadeReturns(file_path, output_path, config[1]) :
             /\ calls' = Append(calls, [op |-> "fade", src |-> <<file_path>>,
                                        dst |-> output_path, ok |-> faded])
             /\ acc' = KeepFaded(acc, output_path, faded)
    /\ idx' = idx + 1
    /\ UNCHANGED <<fadeCall, xfCall, normCall, measCall, cfgCall, batch, runs,
                   pc, input_files, config, toolOnPath,
                   fs, cache_dirs, normalized_files, faded_files, stages,
                   final_success, output, result>>

\* pipeline.py 152: return faded_files
FadeReturn ==
    /\ pc = "fade_loop"
    /\ idx > Len(normalized_files)
    /\ faded_files' = acc
    /\ pc' = "faded"
    /\ UNCHANGED <<fadeCall, xfCall, normCall, measCall, cfgCall, batch, runs,
                   input_files, config, toolOnPath, fs,
                   cache_dirs, normalized_files, acc, idx, calls, stages,
                   final_success, output, result>>

\* A variant that fills the faded list up with pre-fade files.
FadeFallbackFill(faded, normalized) ==
    faded \o SubSeq(normalized, Len(faded) + 1, Len(normalized))

\* A variant without the fallback to the pre-fade list.
FadeNoFallback(faded, normalized) == faded

\* pipeline.py 204-205: the list handed to the final stage
FadeFallback(faded, normalized) == IF faded = <<>> THEN normalized ELSE faded

CheckFaded ==
    /\ pc = "faded"
    /\ faded_files' = FadeFallback(faded_files, normalized_files)
    /\ pc' = "final"
    /\ UNCHANGED <<fadeCall, xfCall, normCall, measCall, cfgCall, batch, runs,
                   input_files, config, toolOnPath, fs,
                   cache_dirs, normalized_files, acc, idx, calls, stages,
                   final_success, output, result>>

\* A variant of the test that looks at the switch only.
NoCrossfadeSwitchOnly(files, c) == ~c.crossfade.enabled

\* pipeline.py 158: if not config.crossfade['enabled'] or len(files) < 2
NoCrossfade(files, c) == ~c.crossfade.enabled \/ Len(files) < 2

\* A variant of the test that also takes the first of several files.
SingleFileOrMore(files) == Len(files) >= 1

\* pipeline.py 159: if len(files) == 1
SingleFile(files) == Len(files) = 1

\* pipeline.py 208, 155-182: run_crossfade_step.  A single file is copied
\* (shutil.copy2 may raise OSError, which leaves the step and is caught by
\* run_pipeline); two or more are crossfaded when crossfade is enabled
\* (whatever crossfade_sequence raises is caught here; the call is logged
\* with the inputs of the command it ran); otherwise False.
CrossfadeStep ==
    /\ pc = "final"
    /\ stages' = Append(stages, "final")
    /\ IF NoCrossfade(faded_files, config[1])
       THEN IF SingleFile(faded_files)
            THEN \E copied \in BOOLEAN :
                   /\ calls' = Append(calls, [op |-> "copy", src |-> faded_files,
                                              dst |-> OutFile, ok |-> copied])
                   /\ IF copied
                      THEN /\ output' = Some([op |-> "copy", src |-> faded_files])
                           /\ final_success' = Some(TRUE)
                           /\ pc' = "cleanup"
                           /\ UNCHANGED result
                      ELSE /\ Raise
                           /\ UNCHANGED <<output, final_success>>
            ELSE /\ final_success' = Some(FALSE)
                 /\ pc' = "cleanup"
                 /\ UNCHANGED <<calls, output, result>>
       ELSE \E runOk \in BOOLEAN :
              LET c == config[1]
                  r == CrossfadeSequence(faded_files, OutFile, c.crossfade.overlap_sec,
                                         c.crossfade.curve, c.crossfade.curve,
                                         c.output.codec, runOk)
                  given == IF r.cmds = <<>> THEN <<>> ELSE r.cmds[1].inputs
              IN  /\ calls' = Append(calls, [op |-> "crossfade", src |-> given,
                                             dst |-> OutFile, ok |-> (r.raised = "none")])
                  /\ output' = IF r.written
                               THEN Some([op |-> "crossfade", src |-> faded_files])
                               ELSE output
                  /\ final_success' = Some(r.raised = "none")
                  /\ pc' = "cleanup"
                  /\ UNCHANGED result
    /\ UNCHANGED <<fadeCall, xfCall, normCall, measCall, cfgCall, batch, runs,
                   input_files, config, toolOnPath, fs,
                   cache_dirs, normalized_files, faded_files, acc, idx>>

\* pipeline.py 211-219, 70-78: cleanup_cache(cache_dirs, keep_files=False),
\* then the return of final_success.  rmtree is taken to succeed; run_pipeline
\* always passes keep_files=False.
CleanupCache ==
    /\ pc = "cleanup"
    /\ stages' = Append(stages, "cleanup")
    /\ fs' = fs \ {CacheDirList(cache_dirs[1])[k] : k \in 1..2}
    /\ pc' = "done"
    /\ result' = final_success
    /\ UNCHANGED <<fadeCall, xfCall, normCall, measCall, cfgCall, batch, runs,
                   input_files, config, toolOnPath,
                   cache_dirs, normalized_files, faded_files, acc, idx, calls,
                   final_success, output>>

Next ==
    \/ SetupCacheDirs
    \/ NormalizeEnter
    \/ NormalizeFile
    \/ NormalizeReturn
    \/ CheckNormalized
    \/ FadeEnter
    \/ FadeOneFile
    \/ FadeReturn
    \/ CheckFaded
    \/ CrossfadeStep
    \/ CleanupCache

Spec == Init /\ [][Next]_vars

(***************************************************************************)
(* pipeline.py: two executions of run_pipeline side by side.  Nothing in   *)
(* the code locks the cache, so the steps of the two runs interleave       *)
(* freely; a step is one stage of one run.  runs.dirs and runs.fs are the   *)
(* cache directories and the files in them that exist, runs.run[r] the     *)
(* locals of run r, runs.touched the directories each run created, wrote   *)
(* into or removed, runs.removed the files each run's cleanup removed, and *)
(* runs.run[r].lost / lost_dirs the files and directories a stage of run r *)
(* needed and did not find.                                                *)
(***************************************************************************)
Runs == {1, 2}

Other(r) == 3 - r

CacheRoots == {<<"_cache">>, <<"_cache2">>}

\* The input lists of the runs: the first files of one directory listing.
RunInputs ==
    LET listing == <<Path(<<"in">>, <<"a">>, ".wav"), Path(<<"in">>, <<"b">>, ".mp3"),
                     Path(<<"in2">>, <<"a">>, ".wav")>>
    IN  {SubSeq(listing, 1, n) : n \in 1..(IF MaxRunFiles < 3 THEN MaxRunFiles ELSE 3)}

\* The configurations of the runs: the tool path is configured, each stage
\* is on or off, the cache root is one of CacheRoots.
RunConfigs ==
    {[DefaultConfig EXCEPT !.normalize.enabled = n, !.fade.enabled = f,
                           !.crossfade.enabled = x, !.paths.ffmpeg = Some("ffmpeg"),
                           !.paths.cache_dir = root] :
        n \in BOOLEAN, f \in BOOLEAN, x \in BOOLEAN, root \in CacheRoots}

\* run_pipeline(input_files, output_path, config) has been called
RunStart(files, c) ==
    [pc |-> "start", input_files |-> files, config |-> c, cache_dirs |-> None,
     normalized_files |-> <<>>, faded_files |-> <<>>, final_success |-> None,
     result |-> None, lost |-> {}, lost_dirs |-> {}]

\* The elements of a list
Elems(files) == {files[k] : k \in 1..Len(files)}

\* A file a stage reads is there: an input file, or a cache file that exists
Readable(file_path, cache) == file_path \in UNION {Elems(i) : i \in RunInputs} \/ file_path \in cache

\* pipeline.py 94-115: the loop of run_normalize_step over the first k files,
\* ok[j] telling whether normalize_audio returned True for the j-th
RECURSIVE NormalizeAll(_, _, _, _)
NormalizeAll(files, d, ok, k) ==
    IF k = 0 THEN <<>>
    ELSE KeepNormalized(NormalizeAll(files, d, ok, k - 1),
                        NormOutputPath(LoopItem(files, k), d), ok[k])

\* pipeline.py 132-150: the loop of run_fade_step over the first k files,
\* ok[j] telling whether fade_file returned for the j-th
RECURSIVE FadeAll(_, _, _, _)
FadeAll(files, d, ok, k) ==
    IF k = 0 THEN <<>>
    ELSE KeepFaded(FadeAll(files, d, ok, k - 1),
                   FadeOutputPath(LoopItem(files, k), d), ok[k])

InitTwoRuns ==
    /\ runs \in {[dirs |-> {}, fs |-> {}, touched |-> {}, removed |-> {},
                  run |-> <<RunStart(i1, c1), RunStart(i2, c2)>>] :
                    i1 \in RunInputs, i2 \in RunInputs,
                    c1 \in {c \in RunConfigs : c.paths.cache_dir = <<"_cache">>},
                    c2 \in RunConfigs}
    /\ fadeCall = NoCall
    /\ xfCall = NoCall
    /\ normCall = NoCall
    /\ measCall = NoCall
    /\ cfgCall = NoCall
    /\ batch = NoBatch
    /\ pc = "idle"
    /\ input_files = <<>>
    /\ config = None
    /\ toolOnPath = FALSE
    /\ fs = {}
    /\ cache_dirs = None
    /\ normalized_files = <<>>
    /\ faded_files = <<>>
    /\ acc = <<>>
    /\ idx = 0
    /\ calls = <<>>
    /\ stages = <<>>
    /\ final_success = None
    /\ output = None
    /\ result = None

\* What a step of run r leaves alone
TwoRunsFrame ==
    UNCHANGED <<fadeCall, xfCall, normCall, measCall, cfgCall, batch, pipeVars>>

\* pipeline.py 194, 56-67: setup_cache_dirs: mkdir(parents=True,
\* exist_ok=True) of both directories
RunSetup(r) ==
    LET me == runs.run[r]
        d  == CacheDirs(me.config.paths.cache_dir)
    IN  /\ me.pc = "start"
        /\ runs' = [runs EXCEPT
                      !.dirs = @ \cup Elems(CacheDirList(d)),
                      !.touched = @ \cup {[by |-> r, dir |-> CacheDirList(d)[k]] : k \in 1..2},
                      !.run[r].cache_dirs = Some(d),
                      !.run[r].pc = "normalize"]
        /\ TwoRunsFrame

\* pipeline.py 197-200, 81-117: run_normalize_step and the test of its
\* result.  A transform can write its output only into a directory that
\* exists.
RunNormalize(r) ==
    LET me    == runs.run[r]
        d     == me.cache_dirs[1]
        files == me.input_files
    IN  /\ me.pc = "normalize"
        /\ IF ~me.config.normalize.enabled
           THEN runs' = [runs EXCEPT !.run[r].normalized_files = files,
                                     !.run[r].pc = "fade"]
           ELSE \E ok \in [1..Len(files) -> BOOLEAN] :
                  /\ \A k \in 1..Len(files) : ok[k] => d.normalized \in runs.dirs
                  /\ LET normalized == NormalizeAll(files, d, ok, Len(files))
                     IN  runs' = [runs EXCEPT
                                    !.fs = @ \cup Elems(normalized),
                                    !.touched = @ \cup {[by |-> r, dir |-> f.dir] :
                                                            f \in Elems(normalized)},
                                    !.run[r].normalized_files = normalized,
                                    !.run[r].lost_dirs = @ \cup ({d.normalized} \ runs.dirs),
                                    !.run[r].pc = IF NoSurvivors(normalized)
                                                  THEN "done" ELSE "fade",
                                    !.run[r].result = IF NoSurvivors(normalized)
                                                      THEN Some(FALSE) ELSE @]
        /\ TwoRunsFrame

\* pipeline.py 203-205, 120-152: run_fade_step and the fallback to the
\* pre-fade list.  fade_file raises when its input is gone or its output
\* directory is.
RunFade(r) ==
    LET me    == runs.run[r]
        d     == me.cache_dirs[1]
        files == me.normalized_files
    IN  /\ me.pc = "fade"
        /\ IF FadeStepSkipped(files, me.config)
           THEN runs' = [runs EXCEPT !.run[r].faded_files = FadeFallback(files, files),
                                     !.run[r].pc = "final"]
           ELSE \E ok \in [1..Len(files) -> BOOLEAN] :
                  /\ \A k \in 1..Len(files) :
                       ok[k] => Readable(files[k], runs.fs) /\ d.faded \in runs.dirs
                  /\ LET faded == FadeAll(files, d, ok, Len(files))
                     IN  runs' = [runs EXCEPT
                                    !.fs = @ \cup Elems(faded),
                                    !.touched = @ \cup {[by |-> r, dir |-> f.dir] :
                                                            f \in Elems(faded)},
                                    !.run[r].faded_files = FadeFallback(faded, files),
                                    !.run[r].lost =
                                        @ \cup {f \in Elems(files) : ~Readable(f, runs.fs)},
                                    !.run[r].lost_dirs = @ \cup ({d.faded} \ runs.dirs),
                                    !.run[r].pc = "final"]
        /\ TwoRunsFrame

\* pipeline.py 208, 155-182, 221-223: run_crossfade_step.  copy2 of a file
\* that is gone raises, which ends the run with False before cleanup_cache;
\* crossfade_sequence fails when one of its inputs is gone.
RunFinal(r) ==
    LET me      == runs.run[r]
        files   == me.faded_files
        missing == {f \in Elems(files) : ~Readable(f, runs.fs)}
    IN  /\ me.pc = "final"
        /\ IF NoCrossfade(files, me.config)
           THEN IF SingleFile(files)
                THEN \E copied \in BOOLEAN :
                       /\ copied => missing = {}
                       /\ runs' = [runs EXCEPT
                                     !.run[r].lost = @ \cup missing,
                                     !.run[r].final_success =
                                         IF copied THEN Some(TRUE) ELSE @,
                                     !.run[r].pc = IF copied THEN "cleanup" ELSE "done",
                                     !.run[r].result = IF copied THEN @ ELSE Some(FALSE)]
                ELSE runs' = [runs EXCEPT !.run[r].final_success = Some(FALSE),
                                          !.run[r].pc = "cleanup"]
           ELSE \E mixed \in BOOLEAN :
                  /\ mixed => missing = {}
                  /\ runs' = [runs EXCEPT !.run[r].lost = @ \cup missing,
                                          !.run[r].final_success = Some(mixed),
                                          !.run[r].pc = "cleanup"]
        /\ TwoRunsFrame

\* pipeline.py 211-219, 70-78: cleanup_cache: rmtree of each directory that
\* exists, with all it holds; then the return of final_success
RunCleanup(r) ==
    LET me      == runs.run[r]
        dirs    == Elems(CacheDirList(me.cache_dirs[1])) \cap runs.dirs
        removed == {f \in runs.fs : f.dir \in dirs}
    IN  /\ me.pc = "cleanup"
        /\ runs' = [runs EXCEPT
                      !.dirs = @ \ dirs,
                      !.fs = @ \ removed,
                      !.touched = @ \cup {[by |-> r, dir |-> dir] : dir \in dirs},
                      !.removed = @ \cup {[by |-> r, file |-> f] : f \in removed},
                      !.run[r].pc = "done",
                      !.run[r].result = me.final_success]
        /\ TwoRunsFrame

NextTwoRuns ==
    \E r \in Runs :
        \/ RunSetup(r)
        \/ RunNormalize(r)
        \/ RunFade(r)
        \/ RunFinal(r)
        \/ RunCleanup(r)

SpecTwoRuns == InitTwoRuns /\ [][NextTwoRuns]_vars

(***************************************************************************)
(* main.py: process_files                                                  *)
(***************************************************************************)
\* main.py 576-587: what find_audio_files can return.  The glob is recursive
\* and runs once per extension, so files of one stem can come from several
\* directories and in several formats; the list is sorted.
FoundFiles ==
    <<Path(<<"in">>, <<"a">>, ".mp3"), Path(<<"in">>, <<"a">>, ".wav"),
      Path(<<"in">>, <<"b">>, ".wav"), Path(<<"in", "sub">>, <<"a">>, ".wav")>>

\* The sorted sublists of FoundFiles of 1..n files.
Sublists(n) ==
    LET Pick(K) == CHOOSE f \in [1..Cardinality(K) -> K] : \A x, y \in 1..Cardinality(K) : x < y => f[x] < f[y]
    IN  {[k \in 1..Cardinality(K) |-> FoundFiles[Pick(K)[k]]] :
            K \in {J \in SUBSET (1..Len(FoundFiles)) : Cardinality(J) \in 1..n}}

\* main.py 775, 797-799, 803-804: a file of the output directory
OutputDirFile(base_name, out_ext) == Path(<<"out">>, base_name, out_ext)

\* main.py 803-804: f"{base_name}_norm.{out_ext}"
NormName(base_name) == base_name \o <<"_norm">>

\* Files the output directory can hold when process_files is called.
OutputDirFiles ==
    {OutputDirFile(<<"a">>, ".wav"), OutputDirFile(NormName(<<"a">>), ".wav"),
     OutputDirFile(<<"b">>, ".wav"), OutputDirFile(<<"a">>, ".mp3")}

CsvPath == OutputDirFile(<<"loudness_measurement">>, ".csv")

\* main.py 796-804: the output path of one file
OutputPath(file_path, args, exists) ==
    LET base_name   == file_path.stem
        output_path == OutputDirFile(base_name, args.out_ext)
    IN  IF output_path \in exists /\ ~args.overwrite
        THEN OutputDirFile(NormName(base_name), args.out_ext)
        ELSE output_path

\* main.py 664-725: what one normalize_audio call does to output_path.  The
\* transform (ffmpeg -y output_path) is invoked or an exception is caught
\* before it; an invoked transform returns 0 and has written the file, or
\* fails, having created the file or not.
NormalizeOutcomes ==
    {[invoked |-> FALSE, written |-> FALSE, success |-> FALSE],
     [invoked |-> TRUE, written |-> FALSE, success |-> FALSE],
     [invoked |-> TRUE, written |-> TRUE, success |-> FALSE],
     [invoked |-> TRUE, written |-> TRUE, success |-> TRUE]}

InitBatch ==
    /\ batch \in {[NoBatch EXCEPT !.pc = "called", !.files = files, !.exists = exists,
                                  !.args = Some([mode |-> mode, overwrite |-> overwrite,
                                                 out_ext |-> out_ext])] :
                     files \in Sublists(MaxBatch), exists \in SUBSET OutputDirFiles,
                     mode \in {"measure", "normalize"}, overwrite \in BOOLEAN,
                     out_ext \in {".wav", ".mp3"}}
    /\ fadeCall = NoCall
    /\ xfCall = NoCall
    /\ normCall = NoCall
    /\ measCall = NoCall
    /\ cfgCall = NoCall
    /\ runs = NoRuns
    /\ pc = "idle"
    /\ input_files = <<>>
    /\ config = None
    /\ toolOnPath = FALSE
    /\ fs = {}
    /\ cache_dirs = None
    /\ normalized_files = <<>>
    /\ faded_files = <<>>
    /\ acc = <<>>
    /\ idx = 0
    /\ calls = <<>>
    /\ stages = <<>>
    /\ final_success = None
    /\ output = None
    /\ result = None

\* main.py 775: os.makedirs(args.output_dir, exist_ok=True); an OSError
\* leaves process_files.
ProcessFilesEnter ==
    /\ batch.pc = "called"
    /\ \E made \in BOOLEAN :
         batch' = [batch EXCEPT !.pc = IF made THEN "loop" ELSE "raised", !.i = 1]
    /\ UNCHANGED <<fadeCall, xfCall, normCall, measCall, cfgCall, pipeVars, runs>>

\* main.py 781-793: one file in measurement mode
MeasureFile ==
    /\ batch.pc = "loop"
    /\ batch.i <= Len(batch.files)
    /\ batch.args[1].mode = "measure"
    /\ \E ok \in BOOLEAN :
         batch' = [batch EXCEPT !.i = @ + 1,
                                !.measure_results = Append(@, ok),
                                !.success_count = IF ok THEN @ + 1 ELSE @,
                                !.failure_count = IF ok THEN @ ELSE @ + 1]
    /\ UNCHANGED <<fadeCall, xfCall, normCall, measCall, cfgCall, pipeVars, runs>>

\* main.py 794-816: one file in normalization mode
NormalizeOneFile ==
    /\ batch.pc = "loop"
    /\ batch.i <= Len(batch.files)
    /\ batch.args[1].mode = "normalize"
    /\ LET file_path   == batch.files[batch.i]
           output_path == OutputPath(file_path, batch.args[1], batch.exists)
       IN  \E o \in NormalizeOutcomes :
             batch' = [batch EXCEPT
                         !.i = @ + 1,
                         !.exists = IF o.written THEN @ \cup {output_path} ELSE @,
                         !.transforms = IF o.invoked
                                        THEN Append(@, [input |-> file_path,
                                                        output_path |-> output_path,
                                                        existed |-> output_path \in batch.exists])
                                        ELSE @,
                         !.success_count = IF o.success THEN @ + 1 ELSE @,
                         !.failure_count = IF o.success THEN @ ELSE @ + 1]
    /\ UNCHANGED <<fadeCall, xfCall, normCall, measCall, cfgCall, pipeVars, runs>>

\* main.py 821-842: after the loop, the CSV of measurement mode and the return
ProcessFilesReturn ==
    /\ batch.pc = "loop"
    /\ batch.i > Len(batch.files)
    /\ batch' = [batch EXCEPT
                   !.pc = "returned",
                   !.exists = IF batch.args[1].mode = "measure" /\ batch.measure_results # <<>>
                              THEN @ \cup {CsvPath} ELSE @]
    /\ UNCHANGED <<fadeCall, xfCall, normCall, measCall, cfgCall, pipeVars, runs>>

NextBatch ==
    \/ ProcessFilesEnter
    \/ MeasureFile
    \/ NormalizeOneFile
    \/ ProcessFilesReturn

SpecBatch == InitBatch /\ [][NextBatch]_vars

(***************************************************************************)
(* Claims about normalize_audio (under SpecNormalize)                      *)
(***************************************************************************)
CountOp(cs, op) == Cardinality({k \in 1..Len(cs) : cs[k].op = op})

\* The first measurement came back and cannot be used: its status is not OK,
\* or its raw parameter set is absent (None) or empty.
FirstMeasurementUnusable(a) ==
    LET m == MeasureLoudness(a.mproc)
    IN  /\ a.two_pass
        /\ a.ffmpeg_path # None \/ a.found
        /\ m.raised = "none"
        /\ MeasurementUnusable(m)

\* C2: a two-pass call whose first measurement is unusable retries exactly
\* once, single-pass, and never nests a second time even when the single pass
\* fails too; every top-level call issues at most one measurement and at most
\* one transform invocation.
C2_FallbackOnce ==
    normCall.phase = "done" =>
        LET a == normCall.args[1]
            r == normCall.res[1]
        IN  /\ CountOp(r.calls, "measure") <= 1
            /\ CountOp(r.calls, "transform") <= 1
            /\ r.depth <= 2
            /\ FirstMeasurementUnusable(a) =>
                   /\ r.depth = 2
                   /\ Len(r.calls) = 2
                   /\ r.calls[1].op = "measure"
                   /\ r.calls[2] = [op |-> "transform", mode |-> "single", out |-> a.t1]
                   /\ r.ret = (a.t1 = "rc0")
            /\ ~FirstMeasurementUnusable(a) => r.depth = 1

\* C2 witness: the measurement gave no parsable block and the single-pass
\* retry failed as well.
C2_Witness ==
    /\ normCall.phase = "done"
    /\ FirstMeasurementUnusable(normCall.args[1])
    /\ normCall.args[1].mproc.proc = "ran"
    /\ normCall.args[1].t1 = "rc1"
    /\ normCall.res[1].ret = FALSE
    /\ Len(normCall.res[1].calls) = 2

\* C12: normalize_audio never raises to its caller: whatever the
\* subprocesses do (nonzero exit, any exception, a binary that cannot be
\* started or found) it returns False, and it returns True only when a
\* transform invocation was issued and exited with code 0.
C12_NormalizeNeverRaises ==
    normCall.phase = "done" =>
        LET r == normCall.res[1]
            exited0 == \E k \in 1..Len(r.calls) :
                           r.calls[k].op = "transform" /\ r.calls[k].out = "rc0"
        IN  /\ r.raised = "none"
            /\ r.ret \in BOOLEAN
            /\ r.ret <=> exited0

\* C12 witness: the measurement subprocess could not be started (missing
\* binary); the call returned False.
C12_Witness ==
    /\ normCall.phase = "done"
    /\ normCall.args[1].two_pass
    /\ normCall.args[1].ffmpeg_path # None
    /\ normCall.args[1].mproc.proc = "OSError"
    /\ normCall.res[1].raised = "none"
    /\ normCall.res[1].ret = FALSE
    /\ normCall.res[1].calls = <<[op |-> "measure", mode |-> "json", out |-> "OSError"]>>

\* The transform invocations of a call, by mode.
Transforms(r, mode) ==
    SelectSeq(r.calls, LAMBDA c : c.op = "transform" /\ c.mode = mode)

\* The measurement of a two-pass call came back with status OK and a
\* non-empty parameter set.
MeasuredOK(a) ==
    LET m == MeasureLoudness(a.mproc)
    IN  /\ a.two_pass
        /\ a.ffmpeg_path # None \/ a.found
        /\ m.raised = "none"
        /\ m.status = "OK"
        /\ m.raw_json # None
        /\ DOMAIN m.raw_json[1] # {}

\* The measurement of a two-pass call came back and is not used: status not
\* OK, or no parameter set, or an empty one.
MeasuredUnusable(a) ==
    LET m == MeasureLoudness(a.mproc)
    IN  /\ a.two_pass
        /\ a.ffmpeg_path # None \/ a.found
        /\ m.raised = "none"
        /\ (m.status # "OK" \/ m.raw_json = None \/ DOMAIN m.raw_json[1] = {})

\* Every other case that reaches a transform issues exactly one, carrying
\* the target parameters only; no call issues more than one transform.
SinglePassElsewhere(a, r) ==
    /\ CountOp(r.calls, "transform") <= 1
    /\ ((~a.two_pass /\ (a.ffmpeg_path # None \/ a.found)) \/ MeasuredUnusable(a)) =>
           /\ Len(Transforms(r, "single")) = 1
           /\ Transforms(r, "linear") = <<>>

\* C24, as stated: the linear transform with the five measured parameters is
\* issued exactly when two passes were requested and the measurement came
\* back OK with a non-empty parameter set; every other case that reaches a
\* transform issues exactly one, with the target parameters only.
C24_LinearIffMeasured ==
    normCall.phase = "done" =>
        LET a == normCall.args[1]
            r == normCall.res[1]
        IN  /\ Len(Transforms(r, "linear")) = (IF MeasuredOK(a) THEN 1 ELSE 0)
            /\ SinglePassElsewhere(a, r)

\* C24, amended: the linear transform is issued exactly when two passes were
\* requested and the measurement came back OK with a parameter set that holds
\* all five measured fields; a non-empty set lacking one of them leads to no
\* transform at all.
C24_LinearIffAllMeasured ==
    normCall.phase = "done" =>
        LET a == normCall.args[1]
            r == normCall.res[1]
            complete == MeasuredOK(a) /\
                        MeasuredKeys \subseteq DOMAIN MeasureLoudness(a.mproc).raw_json[1]
        IN  /\ Len(Transforms(r, "linear")) = (IF complete THEN 1 ELSE 0)
            /\ (MeasuredOK(a) /\ ~complete) => CountOp(r.calls, "transform") = 0
            /\ SinglePassElsewhere(a, r)

\* C24 witness: the measurement gave all five fields and the linear transform
\* ran and exited 0.
C24_Witness ==
    /\ normCall.phase = "done"
    /\ MeasuredOK(normCall.args[1])
    /\ normCall.res[1].calls =
           <<[op |-> "measure", mode |-> "json", out |-> "ran"],
             [op |-> "transform", mode |-> "linear", out |-> "rc0"]>>
    /\ normCall.res[1].ret

\* C28: two passes requested, the measurement OK with a non-empty parameter
\* set that lacks one of the five measured fields: normalize_audio returns
\* False, issues no transform and does not fall back to a single pass.
C28_MissingFieldFails ==
    (/\ normCall.phase = "done"
     /\ MeasuredOK(normCall.args[1])
     /\ ~(MeasuredKeys \subseteq
              DOMAIN MeasureLoudness(normCall.args[1].mproc).raw_json[1])) =>
        LET r == normCall.res[1]
        IN  /\ r.ret = FALSE
            /\ r.raised = "none"
            /\ r.depth = 1
            /\ r.calls = <<[op |-> "measure", mode |-> "json", out |-> "ran"]>>

\* C28 witness: the block lacked target_offset; the call returned False after
\* the measurement alone.
C28_Witness ==
    /\ normCall.phase = "done"
    /\ normCall.args[1].two_pass
    /\ normCall.args[1].mproc =
           [proc |-> "ran",
            stderr |-> <<Line("oneline", MeasuredKeys \ {"target_offset"}, "num")>>]
    /\ normCall.res[1].ret = FALSE
    /\ Len(normCall.res[1].calls) = 1

(***************************************************************************)
(* Claims about measure_loudness (under SpecMeasure)                       *)
(***************************************************************************)
\* C13: a failure to invoke the tool itself (the binary cannot be started,
\* the subprocess machinery fails) is reported as a returned measurement of
\* status FFMPEG_ERROR with all numeric fields null: measure_loudness does
\* not raise and does not report JSON_ERROR.
C13_ToolFailureReported ==
    (measCall.phase = "done" /\ measCall.args[1].proc # "ran") =>
        LET m == measCall.res[1]
        IN  /\ m.raised = "none"
            /\ m.status = "FFMPEG_ERROR"
            /\ m.integrated_lufs = None
            /\ m.loudness_range = None
            /\ m.true_peak_dbtp = None

\* The three loudness members of the block measure_loudness captured, when
\* it parses to an object.
LoudnessKinds(stderr) ==
    LET d == JsonLoads(ScanBlock(stderr, 1, FALSE, <<>>))
    IN  IF d.json # "dict" THEN {}
        ELSE {d.obj[key] : key \in DOMAIN d.obj \cap {"input_i", "input_lra", "input_tp"}}

\* The text holds no block, or a block that does not parse to an object, or
\* an object one of whose loudness members is not numeric.
NoUsableBlock(stderr) ==
    \/ JsonLoads(ScanBlock(stderr, 1, FALSE, <<>>)).json # "dict"
    \/ LoudnessKinds(stderr) \cap {"text", "null"} # {}

\* C14: when the diagnostic text holds no block, or the captured block cannot
\* be parsed (a block whose loudness members are not numeric included),
\* measure_loudness returns status JSON_ERROR with the three loudness fields
\* null and no raw parameter set, without raising.
C14_UnparseableReported ==
    (/\ measCall.phase = "done"
     /\ measCall.args[1].proc = "ran"
     /\ NoUsableBlock(measCall.args[1].stderr)) =>
        LET m == measCall.res[1]
        IN  /\ m.raised = "none"
            /\ m.status = "JSON_ERROR"
            /\ m.integrated_lufs = None
            /\ m.loudness_range = None
            /\ m.true_peak_dbtp = None
            /\ m.raw_json = None

\* The text with everything before its first opening brace removed: the
\* lines before the first line holding a brace, and the prose in front of the
\* brace on that line.
StripProse(stderr) ==
    LET opens == {k \in 1..Len(stderr) : HasOpen(stderr[k])}
    IN  IF opens = {} THEN <<>>
        ELSE LET first == CHOOSE k \in opens : \A j \in opens : k <= j
                 head  == IF stderr[first].kind = "prose_open"
                          THEN BareLine("open") ELSE stderr[first]
             IN  <<head>> \o SubSeq(stderr, first + 1, Len(stderr))

\* The text up to and including the first line, from the first brace on, that
\* holds a closing brace.
DropAfterBlock(stderr) ==
    LET ends == {k \in 1..Len(stderr) :
                    /\ HasClose(stderr[k])
                    /\ \E j \in 1..k : HasOpen(stderr[j])}
    IN  IF ends = {} THEN stderr
        ELSE SubSeq(stderr, 1, CHOOSE k \in ends : \A j \in ends : k <= j)

\* C23: the block extraction ignores everything before the first opening
\* brace and everything after the line holding the next closing brace: the
\* measurement is the one the text gives with both removed, so that prose in
\* front of the first brace never makes a well-formed block unparseable.
C23_ScannerIgnoresProse ==
    (measCall.phase = "done" /\ measCall.args[1].proc = "ran") =>
        LET stderr == measCall.args[1].stderr
        IN  /\ measCall.res[1] = MeasureLoudness([proc |-> "ran",
                                                  stderr |-> DropAfterBlock(stderr)])
            /\ measCall.res[1] = MeasureLoudness([proc |-> "ran",
                                                  stderr |-> StripProse(stderr)])

(***************************************************************************)
(* Claims about crossfade_sequence (under SpecCrossfade)                   *)
(***************************************************************************)
\* C3: with fewer than 2 inputs the call fails with the precondition's error
\* before any invocation: no command is run and nothing is written.
C3_PreconditionBeforeInvocation ==
    (xfCall.phase = "done" /\ Len(xfCall.args[1].inputs) < 2) =>
        /\ xfCall.res[1].raised = "AssertionError"
        /\ xfCall.res[1].cmds = <<>>
        /\ ~xfCall.res[1].written

\* C3 witness: crossfade of a single input has been called.
C3_Witness ==
    /\ xfCall.phase = "done"
    /\ Len(xfCall.args[1].inputs) = 1
    /\ xfCall.res[1].raised = "AssertionError"

\* The input a stream label "[k:a]" names: the (k+1)-th "-i" argument.
InputOf(cmd, label) == cmd.inputs[label.n + 1]

\* C4: for N >= 2 inputs there is exactly one invocation, its graph has N-1
\* nodes, node 1 merges input 1 and input 2, node k > 1 merges the result of
\* node k-1 and input k+1, every node carries the overlap and the two curves,
\* the inputs are listed in the given order and the output is mapped from
\* the last node.
C4_ChainShape ==
    (xfCall.phase = "done" /\ Len(xfCall.args[1].inputs) >= 2) =>
        LET a == xfCall.args[1]
            r == xfCall.res[1]
            N == Len(a.inputs)
        IN  /\ Len(r.cmds) = 1
            /\ LET cmd == r.cmds[1]
                   g   == cmd.filter_complex
               IN  /\ cmd.inputs = a.inputs
                   /\ Len(g) = N - 1
                   /\ g[1].left.kind = "in" /\ InputOf(cmd, g[1].left) = a.inputs[1]
                   /\ \A k \in 1..(N - 1) :
                        /\ g[k].right.kind = "in"
                        /\ g[k].right.n = k
                        /\ InputOf(cmd, g[k].right) = a.inputs[k + 1]
                        /\ g[k].d = a.overlap
                        /\ g[k].c1 = a.curve1
                        /\ g[k].c2 = a.curve2
                        /\ g[k].out.kind = "a"
                        /\ \A j \in 1..(N - 1) : g[j].out = g[k].out => j = k
                   /\ g[1].left.n = 0
                   /\ \A k \in 2..(N - 1) : g[k].left = g[k - 1].out
                   /\ cmd.map = g[N - 1].out

\* C4 witness: three distinct inputs were crossfaded with different curves.
C4_Witness ==
    /\ xfCall.phase = "done"
    /\ Len(xfCall.args[1].inputs) = 3
    /\ Cardinality({xfCall.args[1].inputs[k] : k \in 1..3}) = 3
    /\ xfCall.args[1].curve1 # xfCall.args[1].curve2
    /\ xfCall.res[1].raised = "none"
    /\ Len(xfCall.res[1].cmds[1].filter_complex) = 2

(***************************************************************************)
(* Claims about fade_file (under SpecFade)                                 *)
(***************************************************************************)
\* The fade filters of the command fade_file ran (the no-op filter excluded).
EmittedFades(r) ==
    {r.cmds[1].af[k] : k \in {j \in 1..Len(r.cmds[1].af) : r.cmds[1].af[j].t # "anull"}}

\* C5: every fade start time fade_file emits lies within [0, D], D the
\* probed duration, whatever the fade durations and the fade-out anchor.
C5_StartsWithinDuration ==
    (fadeCall.phase = "done" /\ fadeCall.res[1].raised = "none") =>
        \A f \in EmittedFades(fadeCall.res[1]) :
            0 <= f.st /\ f.st <= fadeCall.args[1].probe[1]

\* C6: the fade-out start is max(D - offset, 0) when a from-end offset is
\* given (a given absolute start notwithstanding), else max(start, 0) when an
\* absolute start is given, else max(D - fadeOutDuration, 0); it is 0 when
\* the offset exceeds D.  The fade-out filter, when emitted, carries it.
C6_FadeOutPrecedence ==
    (fadeCall.phase = "done" /\ fadeCall.args[1].probe # None) =>
        LET a    == fadeCall.args[1]
            r    == fadeCall.res[1]
            D    == a.probe[1]
            st   == r.st_out[1]
            fout == IF a.out_ms > 0 THEN a.out_ms \div MsPerTick ELSE 0
        IN  /\ a.from_end # None => st = Max(D - a.from_end[1], 0)
            /\ (a.from_end # None /\ a.from_end[1] > D) => st = 0
            /\ (a.from_end = None /\ a.start # None) => st = Max(a.start[1], 0)
            /\ (a.from_end = None /\ a.start = None) => st = Max(D - fout, 0)
            /\ \A f \in EmittedFades(r) : f.t = "out" => f.st = st

\* C6 witness: both anchors were given, the offset exceeds the duration and a
\* fade-out filter was emitted.
C6_Witness ==
    /\ fadeCall.phase = "done"
    /\ fadeCall.args[1].probe # None
    /\ fadeCall.args[1].from_end # None
    /\ fadeCall.args[1].start # None
    /\ fadeCall.args[1].start[1] > 0
    /\ fadeCall.args[1].from_end[1] > fadeCall.args[1].probe[1]
    /\ \E f \in EmittedFades(fadeCall.res[1]) : f.t = "out" /\ f.st = 0

\* C20: the filter chain of the command is, in this order, a fade-in at
\* time 0 present exactly when the fade-in duration is positive, then a
\* fade-out at the resolved start present exactly when the fade-out duration
\* is positive; when both durations are zero or negative the chain is exactly
\* the identity filter anull, so the command always has a non-empty filter.
C20_FilterChain ==
    (fadeCall.phase = "done" /\ fadeCall.args[1].probe # None) =>
        LET a   == fadeCall.args[1]
            r   == fadeCall.res[1]
            af  == r.cmds[1].af
            fi  == IF a.in_ms > 0
                   THEN <<[t |-> "in", st |-> 0, d |-> a.in_ms \div MsPerTick]>>
                   ELSE <<>>
            fo  == IF a.out_ms > 0
                   THEN <<[t |-> "out", st |-> r.st_out[1], d |-> a.out_ms \div MsPerTick]>>
                   ELSE <<>>
        IN  /\ Len(r.cmds) = 1
            /\ af # <<>>
            /\ (a.in_ms > 0 \/ a.out_ms > 0) => af = fi \o fo
            /\ (a.in_ms <= 0 /\ a.out_ms <= 0) => af = <<[t |-> "anull", st |-> 0, d |-> 0]>>

\* C20 witness: a negative fade-in and a zero fade-out duration; the command
\* ran with the identity filter.
C20_Witness ==
    /\ fadeCall.phase = "done"
    /\ fadeCall.args[1].in_ms < 0
    /\ fadeCall.args[1].out_ms = 0
    /\ fadeCall.res[1].raised = "none"
    /\ fadeCall.res[1].cmds[1].af = <<[t |-> "anull", st |-> 0, d |-> 0]>>

(***************************************************************************)
(* Claims about run_pipeline (under Spec)                                  *)
(***************************************************************************)
Range(q) == {q[k] : k \in 1..Len(q)}

CallsOf(ops) == SelectSeq(calls, LAMBDA c : c.op \in ops)

\* The run has left the stage function: it was called and is not looping.
StageLeft(stage, loop) == stage \in Range(stages) /\ pc # loop

ToolResolved == config[1].paths.ffmpeg # None \/ toolOnPath

\* C1: when run_pipeline has returned, whatever the outcome, neither
\* per-stage cache directory exists (the directories having been set up).
C1_CacheRemovedOnReturn ==
    (pc = "done" /\ cache_dirs # None) =>
        fs \cap {cache_dirs[1].normalized, cache_dirs[1].faded} = {}

\* The Normalize stage attempted every input exactly once, in order, kept
\* exactly the outputs of the successful ones, each inside the normalized
\* cache directory.
EveryInputAttemptedOnce ==
    LET nc == CallsOf({"normalize"})
        ok == SelectSeq(nc, LAMBDA c : c.ok)
    IN  /\ Len(nc) = Len(input_files)
        /\ \A k \in 1..Len(nc) :
             /\ nc[k].src = <<input_files[k]>>
             /\ nc[k].dst.dir = config[1].paths.cache_dir \o <<"normalized">>
             /\ nc[k].dst.stem = input_files[k].stem \o <<"__norm">>
             /\ nc[k].dst.suffix = input_files[k].suffix
        /\ normalized_files = [k \in 1..Len(ok) |-> ok[k].dst]

\* C7 as stated: with normalization enabled every input is attempted exactly
\* once and the stage's list is the outputs of the successes; disabled, the
\* input list is returned and nothing is invoked.
C7_EveryInputAttempted ==
    StageLeft("normalize", "normalize_loop") =>
        IF config[1].normalize.enabled
        THEN EveryInputAttemptedOnce
        ELSE normalized_files = input_files /\ CallsOf({"normalize"}) = <<>>

\* C7, amended: as stated when the tool path is resolved (configured, or
\* found by find_ffmpeg); when it is not, the stage raises before any input
\* is attempted and the run returns False.
C7_EveryInputAttemptedWhenToolResolved ==
    StageLeft("normalize", "normalize_loop") =>
        IF ~config[1].normalize.enabled
        THEN normalized_files = input_files /\ CallsOf({"normalize"}) = <<>>
        ELSE IF ToolResolved
        THEN EveryInputAttemptedOnce
        ELSE calls = <<>> /\ pc = "done" /\ result = Some(FALSE)

\* C7 witness: a failure in the middle: the first and third of three inputs
\* were normalized, the second failed.
C7_Witness ==
    /\ pc = "normalized"
    /\ config[1].normalize.enabled
    /\ Len(input_files) = 3
    /\ Len(calls) = 3
    /\ calls[1].ok /\ ~calls[2].ok /\ calls[3].ok
    /\ normalized_files = <<calls[1].dst, calls[3].dst>>

\* C8: when the Normalize stage returned an empty list the run has returned
\* False, neither the Fade stage nor the final stage was called, no fade,
\* copy or crossfade was issued and nothing was written to the output path.
C8_AbortOnEmpty ==
    (StageLeft("normalize", "normalize_loop") /\ pc # "normalized"
       /\ normalized_files = <<>>) =>
        /\ pc = "done"
        /\ result = Some(FALSE)
        /\ Range(stages) = {"normalize"}
        /\ CallsOf({"fade", "copy", "crossfade"}) = <<>>
        /\ output = None

\* C8 witness: two inputs, both normalizations failed, the run returned.
C8_Witness ==
    /\ pc = "done"
    /\ Len(input_files) = 2
    /\ Len(CallsOf({"normalize"})) = 2
    /\ normalized_files = <<>>
    /\ result = Some(FALSE)

AllFadesFailed ==
    LET fc == CallsOf({"fade"})
    IN  Len(fc) = Len(normalized_files) /\ \A k \in 1..Len(fc) : ~fc[k].ok

\* C9: a Fade stage that is disabled (or is given an empty list) returns its
\* list unchanged and issues no fade; when it is enabled and every fade
\* fails, the run goes on to the final stage, with exactly the pre-fade list
\* in its order.
C9_FadeFallback ==
    StageLeft("fade", "fade_loop") =>
        /\ (~config[1].fade.enabled \/ normalized_files = <<>>) =>
               /\ CallsOf({"fade"}) = <<>>
               /\ faded_files = normalized_files
        /\ (config[1].fade.enabled /\ AllFadesFailed /\ pc # "faded") =>
               /\ faded_files = normalized_files
               /\ pc = "done" => "final" \in Range(stages)
               /\ \A k \in 1..Len(calls) :
                    calls[k].op \in {"copy", "crossfade"} => calls[k].src = normalized_files

\* C9 witness: both fades of two normalized files failed and the final stage
\* is about to get the two normalized files.
C9_Witness ==
    /\ pc = "final"
    /\ config[1].fade.enabled
    /\ Len(normalized_files) = 2
    /\ AllFadesFailed
    /\ faded_files = normalized_files

C11_NoImplicitConcatenation ==
    (StageLeft("final", "final") /\ Len(faded_files) >= 2) =>
        LET fc == CallsOf({"copy", "crossfade"})
        IN  IF ~config[1].crossfade.enabled
            THEN /\ fc = <<>>
                 /\ output = None
                 /\ final_success = Some(FALSE)
                 /\ pc = "done" => result = Some(FALSE)
            ELSE /\ Len(fc) = 1
                 /\ fc[1].op = "crossfade"
                 /\ fc[1].src = faded_files
                 /\ fc[1].dst = OutFile

\* C11 witness: two files survived, crossfade is disabled, the run returned
\* False.
C11_Witness ==
    /\ pc = "done"
    /\ Len(faded_files) = 2
    /\ ~config[1].crossfade.enabled
    /\ "final" \in Range(stages)
    /\ result = Some(FALSE)

\* The operations logged for a stage, in the order issued.
StageCalls(op) == CallsOf({op})

\* C15: both per-stage cache directories exist whenever a Normalize or Fade
\* invocation can be issued, and every intermediate file a stage writes lies
\* in that stage's own directory: normalized/ for Normalize, faded/ for Fade.
C15_CacheLayout ==
    /\ pc \in {"normalize_loop", "fade_loop"} =>
           /\ cache_dirs # None
           /\ {cache_dirs[1].normalized, cache_dirs[1].faded} \subseteq fs
           /\ cache_dirs[1].normalized # cache_dirs[1].faded
    /\ \A k \in 1..Len(calls) :
           /\ calls[k].op = "normalize" => calls[k].dst.dir = cache_dirs[1].normalized
           /\ calls[k].op = "fade" => calls[k].dst.dir = cache_dirs[1].faded

\* C15 witness: a run that normalized and faded a file into the two
\* directories.
C15_Witness ==
    /\ pc = "faded"
    /\ \E k \in 1..Len(calls) : calls[k].op = "normalize" /\ calls[k].ok
    /\ \E k \in 1..Len(calls) : calls[k].op = "fade" /\ calls[k].ok
    /\ {cache_dirs[1].normalized, cache_dirs[1].faded} \subseteq fs

\* p is inp itself or a file a stage derived from it: the stem of inp
\* followed by stage marks, the same suffix.
DerivedFrom(p, inp) ==
    \/ p = inp
    \/ /\ p.suffix = inp.suffix
       /\ Len(p.stem) > Len(inp.stem)
       /\ SubSeq(p.stem, 1, Len(inp.stem)) = inp.stem
       /\ \A k \in (Len(inp.stem) + 1)..Len(p.stem) : p.stem[k] \in {"__norm", "__fade"}

\* The j-th smallest member of a set of numbers.
Nth(S, j) == CHOOSE x \in S : Cardinality({y \in S : y < x}) = j - 1

\* files, mapped back to the inputs, is a subsequence of them: strictly
\* increasing positions, hence no reorder and no duplicate.
OrderedSurvivors(files, inputs) ==
    \E S \in SUBSET (1..Len(inputs)) :
        /\ Cardinality(S) = Len(files)
        /\ \A j \in 1..Len(files) : DerivedFrom(files[j], inputs[Nth(S, j)])

StageRank(op) == IF op = "normalize" THEN 1 ELSE IF op = "fade" THEN 2 ELSE 3

\* C17: the invocations of a run are strictly sequential: within a stage the
\* k-th invocation is for the k-th file of the stage's list, each completed
\* before the next is issued; every Normalize invocation precedes every Fade
\* invocation, which precedes the single final copy or crossfade.
C17_Sequential ==
    /\ \A j, k \in 1..Len(calls) :
           j < k => StageRank(calls[j].op) <= StageRank(calls[k].op)
    /\ Len(CallsOf({"copy", "crossfade"})) <= 1
    /\ Len(StageCalls("normalize")) <= Len(input_files)
    /\ \A k \in 1..Len(StageCalls("normalize")) :
           StageCalls("normalize")[k].src = <<input_files[k]>>
    /\ StageCalls("fade") # <<>> =>
           /\ "normalize" \in Range(stages) /\ pc # "normalize_loop"
           /\ Len(StageCalls("fade")) <= Len(normalized_files)
           /\ \A k \in 1..Len(StageCalls("fade")) :
                  StageCalls("fade")[k].src = <<normalized_files[k]>>
    /\ pc = "normalize_loop" => Len(StageCalls("normalize")) = idx - 1
    /\ pc = "fade_loop" => Len(StageCalls("fade")) = idx - 1
    /\ CallsOf({"copy", "crossfade"}) # <<>> => pc \in {"cleanup", "done"}

\* C17 witness: two distinct files went through Normalize, then Fade, then
\* the crossfade.
C17_Witness ==
    /\ pc = "done"
    /\ Len(input_files) = 2
    /\ input_files[1] # input_files[2]
    /\ Len(calls) = 5
    /\ <<calls[1].op, calls[2].op, calls[3].op, calls[4].op, calls[5].op>>
           = <<"normalize", "normalize", "fade", "fade", "crossfade">>

\* The final copy or crossfade was issued and succeeded.
FinalSucceeded ==
    \E k \in 1..Len(calls) : calls[k].op \in {"copy", "crossfade"} /\ calls[k].ok

\* C18: run_pipeline always returns a value; it returns True exactly when
\* the final copy or crossfade succeeded, so that every failure (no
\* survivor, several files without crossfade, a failing crossfade, a missing
\* tool, a failing copy, a cache directory that cannot be made) is returned
\* as False.
C18_FailuresReturnFalse ==
    pc = "done" =>
        /\ result # None
        /\ result[1] \in BOOLEAN
        /\ result[1] <=> FinalSucceeded
        /\ (config[1].normalize.enabled /\ ~ToolResolved) => result = Some(FALSE)
        /\ ("normalize" \in Range(stages) /\ normalized_files = <<>>) => result = Some(FALSE)

\* C18 witness: the copy of the single surviving file failed; the run
\* returned False.
C18_Witness ==
    /\ pc = "done"
    /\ \E k \in 1..Len(calls) : calls[k].op = "copy" /\ ~calls[k].ok
    /\ result = Some(FALSE)

\* Every operation the run issued succeeded.
AllSucceeded == \A k \in 1..Len(calls) : calls[k].ok

\* C21: three inputs, two-pass normalization, fade with a from-end anchor and
\* crossfade all enabled, the tool found, the cache directories made and
\* every invocation succeeding: the run issues three normalizations, then
\* three fades, then one crossfade over the three faded files, writes the
\* single output file, returns True and leaves neither cache directory.
C21_EndToEnd ==
    (/\ pc = "done"
     /\ Len(input_files) = 3
     /\ config[1].normalize.enabled /\ config[1].normalize.two_pass
     /\ config[1].fade.enabled /\ config[1].fade.from_end_sec # None
     /\ config[1].crossfade.enabled
     /\ ToolResolved
     /\ cache_dirs # None
     /\ AllSucceeded) =>
        /\ Len(calls) = 7
        /\ \A k \in 1..3 :
               /\ calls[k].op = "normalize"
               /\ calls[k].src = <<input_files[k]>>
               /\ calls[k + 3].op = "fade"
               /\ calls[k + 3].src = <<calls[k].dst>>
               /\ calls[7].src[k] = calls[k + 3].dst
        /\ calls[7].op = "crossfade"
        /\ Len(calls[7].src) = 3
        /\ calls[7].dst = OutFile
        /\ output = Some([op |-> "crossfade", src |-> calls[7].src])
        /\ result = Some(TRUE)
        /\ {cache_dirs[1].normalized, cache_dirs[1].faded} \cap fs = {}

\* C21 witness: such a run, over three inputs of which the first two differ,
\* has returned True.
C21_Witness ==
    /\ pc = "done"
    /\ Len(input_files) = 3
    /\ input_files[1] # input_files[2]
    /\ config[1].normalize.enabled /\ config[1].normalize.two_pass
    /\ config[1].fade.enabled /\ config[1].crossfade.enabled
    /\ Len(calls) = 7
    /\ AllSucceeded
    /\ result = Some(TRUE)
    /\ output # None

\* No element occurs twice.
Distinct(q) == \A j, k \in 1..Len(q) : j # k => q[j] # q[k]

\* C25: for an input list of distinct files, a stage gives distinct files
\* distinct cache output paths: no invocation of a stage writes the path an
\* earlier invocation of that stage wrote, and no list a stage hands on holds
\* a path twice.
C25_DistinctCachePaths ==
    Distinct(input_files) =>
        /\ \A j, k \in 1..Len(calls) :
               (/\ j < k
                /\ calls[j].op = calls[k].op
                /\ calls[j].op \in {"normalize", "fade"}) => calls[j].dst # calls[k].dst
        /\ Distinct(normalized_files)
        /\ Distinct(faded_files)

\* C27: the list handed to the final stage holds Fade outputs only or
\* pre-fade files only: when some fades fail and some succeed, the failed
\* files are dropped, not replaced by their pre-fade versions (and the run
\* may still return True, with fewer clips than were normalized).
C27_NoMixedFinalList ==
    (pc \in {"final", "cleanup"} \/ (pc = "done" /\ "final" \in Range(stages))) =>
        LET fadedDir == cache_dirs[1].faded
            okFades  == SelectSeq(StageCalls("fade"), LAMBDA c : c.ok)
        IN  /\ \/ \A k \in 1..Len(faded_files) : faded_files[k].dir = fadedDir
               \/ /\ faded_files = normalized_files
                  /\ \A k \in 1..Len(faded_files) : faded_files[k].dir # fadedDir
            /\ okFades # <<>> =>
                   /\ Len(faded_files) = Len(okFades)
                   /\ \A k \in 1..Len(okFades) : faded_files[k] = okFades[k].dst

\* C27 witness: of two normalized files one fade failed; the other file alone
\* reached the final stage and the run returned True.
C27_Witness ==
    /\ pc = "done"
    /\ Len(normalized_files) = 2
    /\ Len(StageCalls("fade")) = 2
    /\ ~StageCalls("fade")[1].ok
    /\ StageCalls("fade")[2].ok
    /\ faded_files = <<StageCalls("fade")[2].dst>>
    /\ result = Some(TRUE)

(***************************************************************************)
(* Claims about save_config / load_config (under SpecConfig)               *)
(***************************************************************************)
\* The fields of a configuration, as <<group, key>>.
FieldsOf(c) == UNION {{<<group, key>> : key \in DOMAIN c[group]} : group \in DOMAIN c}

\* C19: load_config of the document save_config(c) wrote gives back c in
\* every field of every group; load_config of a document from which keys or
\* groups are missing leaves exactly those fields at their defaults and takes
\* every other field from the document.
C19_ConfigRoundTrip ==
    (cfgCall.phase = "loaded" /\ cfgCall.res[1].document # None) =>
        LET c       == cfgCall.args[1]
            omitted == cfgCall.res[1].omitted
            loaded  == cfgCall.res[1].loaded[1]
        IN  /\ DOMAIN loaded = DOMAIN c
            /\ FieldsOf(loaded) = FieldsOf(c)
            /\ \A f \in FieldsOf(c) :
                   loaded[f[1]][f[2]] = IF f \in omitted
                                        THEN DefaultConfig[f[1]][f[2]]
                                        ELSE c[f[1]][f[2]]
            /\ omitted = {} => loaded = c

\* C19 witness: a configuration that differs from the defaults everywhere
\* was saved; the output group and the lufs key were removed; the loaded
\* configuration has the defaults there and the saved values elsewhere.
C19_Witness ==
    /\ cfgCall.phase = "loaded"
    /\ cfgCall.args[1] = FarConfig
    /\ cfgCall.res[1].omitted =
           {<<"output", "codec">>, <<"output", "sample_rate">>, <<"output", "format">>,
            <<"normalize", "lufs">>}
    /\ cfgCall.res[1].loaded[1].output = DefaultConfig.output
    /\ cfgCall.res[1].loaded[1].normalize = [FarConfig.normalize EXCEPT !.lufs = -160]
    /\ cfgCall.res[1].loaded[1].paths = FarConfig.paths

\* C19 witness, round trip: the document was read back as written.
C19_WitnessRoundTrip ==
    /\ cfgCall.phase = "loaded"
    /\ cfgCall.args[1] = FarConfig
    /\ cfgCall.res[1].document # None
    /\ cfgCall.res[1].omitted = {}
    /\ cfgCall.res[1].loaded = Some(FarConfig)

\* load_config has nothing to read or rejects what it reads: there is no
\* file, the text is not JSON, it is no object, or one of its groups is no
\* object.
DocumentRejected(document) ==
    \/ document = None
    \/ document[1].t # "object"
    \/ \E group \in DOMAIN document[1].v : document[1].v[group].t # "object"

\* C29: when the file is missing, is not valid JSON or holds a group whose
\* value is not a mapping, load_config returns (it does not raise) the
\* defaults in every group: no group of a rejected document is applied.
C29_LoadAllOrNothing ==
    (cfgCall.phase = "loaded" /\ DocumentRejected(cfgCall.res[1].document)) =>
        cfgCall.res[1].loaded = Some(DefaultConfig)

(***************************************************************************)
(* Claims about create_preset_config (under SpecPreset)                    *)
(***************************************************************************)
\* The fields a preset sets, as <<group, key>>.
PresetFields(preset_name) ==
    LET target == {<<"normalize", "preset">>, <<"normalize", "lufs">>, <<"normalize", "tp">>}
        fades  == {<<"fade", "enabled">>, <<"fade", "in_ms">>, <<"fade", "out_ms">>,
                   <<"fade", "from_end_sec">>}
        coding == {<<"output", "codec">>, <<"output", "format">>}
    IN  IF preset_name \in {"podcast", "broadcast"} THEN target \cup fades \cup coding
        ELSE IF preset_name = "bgm"
        THEN target \cup fades \cup coding
                 \cup {<<"crossfade", "enabled">>, <<"crossfade", "overlap_sec">>}
        ELSE {}

\* C22: podcast has target -16 LUFS and a lossy codec; bgm has target -18
\* LUFS, fades longer than podcast's and crossfade enabled; broadcast has
\* target -23 LUFS, true peak -1 dBTP and a lossless codec; every field a
\* preset does not set, and every field for an unknown name, is the default.
C22_PresetLookup ==
    cfgCall.phase \notin {"idle", "preset"} =>
        LET c    == cfgCall.args[1]
            name == cfgCall.args[2]
        IN  /\ name = "podcast" =>
                   /\ c.normalize.lufs = -160
                   /\ c.output.codec = "libmp3lame"
                   /\ c.fade.in_ms = 500 /\ c.fade.out_ms = 2000
            /\ name = "bgm" =>
                   /\ c.normalize.lufs = -180
                   /\ c.fade.in_ms > 500 /\ c.fade.out_ms > 2000
                   /\ c.crossfade.enabled
            /\ name = "broadcast" =>
                   /\ c.normalize.lufs = -230
                   /\ c.normalize.tp = -10
                   /\ c.output.codec = "pcm_s16le"
            /\ name \notin {"podcast", "bgm", "broadcast"} => c = DefaultConfig
            /\ FieldsOf(c) = FieldsOf(DefaultConfig)
            /\ \A f \in FieldsOf(c) \ PresetFields(name) :
                   c[f[1]][f[2]] = DefaultConfig[f[1]][f[2]]

\* C22 witness: the bgm preset has been created: it sets crossfade on and
\* leaves the crossfade curve and the sample rate at their defaults.
C22_Witness ==
    /\ cfgCall.phase = "args"
    /\ Len(cfgCall.args) = 2
    /\ cfgCall.args[2] = "bgm"
    /\ cfgCall.args[1].crossfade = [enabled |-> TRUE, overlap_sec |-> 30, curve |-> "tri"]
    /\ cfgCall.args[1].output.sample_rate = 48000
    /\ cfgCall.args[1].paths = DefaultConfig.paths

(***************************************************************************)
(* Claims about concurrent runs (under SpecTwoRuns)                        *)
(***************************************************************************)
\* The cache root a run was configured with.
RootOf(r) == runs.run[r].config.paths.cache_dir

\* The cache directories that belong to the root of run r.
DirsOf(r) == Elems(CacheDirList(CacheDirs(RootOf(r))))

\* Run r is past setup_cache_dirs and before cleanup_cache.
BetweenStages(r) == runs.run[r].pc \in {"normalize", "fade", "final", "cleanup"}

\* C26: runs are not isolated from each other only through a shared cache
\* root.  A run never creates, writes into or removes a directory outside
\* its own root, so with different roots no run touches the other's cache
\* directories and every run finds its directories and intermediate files
\* in place; a stage finds a file or directory missing only when the other
\* run shares the root.
C26_IsolatedUnlessShared ==
    \A r \in Runs :
        /\ \A t \in runs.touched : t.by = r => t.dir \in DirsOf(r)
        /\ RootOf(r) # RootOf(Other(r)) =>
             /\ \A t \in runs.touched : t.by = Other(r) => t.dir \notin DirsOf(r)
             /\ BetweenStages(r) =>
                  /\ DirsOf(r) \subseteq runs.dirs
                  /\ \A f \in Elems(runs.run[r].normalized_files)
                              \cup Elems(runs.run[r].faded_files) : Readable(f, runs.fs)
        /\ (runs.run[r].lost # {} \/ runs.run[r].lost_dirs # {}) =>
             RootOf(r) = RootOf(Other(r))

\* The interleaving of C26: the runs share a root, the cleanup of one removed
\* an intermediate file of the other while that one was between stages, and
\* its later stage did not find the file.
C26_Witness ==
    \E r \in Runs :
        /\ RootOf(r) = RootOf(Other(r))
        /\ \E f \in runs.run[r].lost :
             /\ f \in Elems(runs.run[r].normalized_files)
             /\ [by |-> Other(r), file |-> f] \in runs.removed

(***************************************************************************)
(* Claims about process_files (under SpecBatch)                            *)
(***************************************************************************)
\* C30: in normalization mode with the overwrite option off, no transform is
\* invoked with an output path that exists in the output directory at that
\* moment, be it a file that was there before the batch or one the batch
\* wrote earlier.
C30_NoExistingOutputChosen ==
    (batch.args # None /\ batch.args[1].mode = "normalize" /\ ~batch.args[1].overwrite) =>
        \A k \in 1..Len(batch.transforms) : ~batch.transforms[k].existed

====
